---- MODULE Spec2Model ----
(***************************************************************************)
(* A model of the github-projects MCP server: the datetime helpers, the    *)
(* record mappers, the paginated fetch-filter loops of the tools and the   *)
(* pull-request analyzer.                                                  *)
(*                                                                         *)
(* A datetime is a record [local, off, aware]: the wall-clock reading in   *)
(* hours, the UTC offset in hours and whether tzinfo is set. None is the   *)
(* record DtNone. A timestamp string is a record [shape, local, off]       *)
(* naming which of the parser's accepted shapes the text has.              *)
(***************************************************************************)
EXTENDS Integers, Sequences, FiniteSets, TLC

VARIABLES
    PAT,        \* app.PAT, read from the environment when the module loads
    tool,       \* the tool of the invocation in progress ("none" before it)
    pc,         \* "idle" | "await" (suspended in client.post) | "done" | "failed"
    filter,     \* the request object of the invocation
    after,      \* variables["after"], the cursor of the next request
    acc,        \* the local list prs / tasks / iterations
    requests,   \* the cursors of the requests issued so far, in order
    served,     \* the responses received so far, in order
    outcome,    \* "none" | "ok" | the kind of the error that ended the call
    returned,   \* the list handed to the caller (<< >> unless outcome = "ok")
    analytics,  \* the AnalyticsData built by analyze_time_period, or NoAnalytics
    html,       \* TRUE once generate_report has produced the document
    pull_requests, \* PRAnalyzer.pull_requests
    start_date, \* analyze_time_period's start_date argument
    end_date,   \* analyze_time_period's end_date argument
    apc,        \* position of the stand-alone analyzer run: "ready" | "done" | "nodata" | "off"
    fn,         \* the function of a stand-alone call ("none" when there is none)
    arg,        \* the argument of that call
    result,     \* its outcome: NoResult before it ran, else [raised, value]
    frames,     \* the local variables of each of two concurrent invocations
    upstream    \* the pages GitHub holds for each query while they run

vars == <<PAT, tool, pc, filter, after, acc, requests, served, outcome,
          returned, analytics, html, pull_requests, start_date, end_date, apc,
          fn, arg, result, frames, upstream>>

toolVars == <<PAT, tool, pc, filter, after, acc, requests, served, outcome,
              returned, html>>

analyzerVars == <<pull_requests, start_date, end_date, apc>>

callVars == <<fn, arg, result>>

frameVars == <<frames, upstream>>

(***************************************************************************)
(* Bounds of the model.                                                    *)
(***************************************************************************)
MaxPages == 3
MaxNodes == 2
MaxPRs == 3
MaxCriteria == 3
MaxHour == 26

HoursPerDay == 24

(***************************************************************************)
(* Generic helpers.                                                        *)
(***************************************************************************)
SeqsUpTo(S, n) == UNION {[1..k -> S] : k \in 0..n}

RECURSIVE SumSeq(_)
SumSeq(s) == IF s = << >> THEN 0 ELSE Head(s) + SumSeq(Tail(s))

RECURSIVE Concat(_)
Concat(ss) == IF ss = << >> THEN << >> ELSE Head(ss) \o Concat(Tail(ss))

MapSeq(s, F(_)) == [i \in 1..Len(s) |-> F(s[i])]

\* str.startswith / re.match of a literal pattern: the pattern is a prefix
StartsWith(s, p) == Len(p) <= Len(s) /\ SubSeq(s, 1, Len(p)) = p

(***************************************************************************)
(* utils/datetime_utils.py                                                 *)
(***************************************************************************)
DtNone == [isNone |-> TRUE]

Dt(local, off, aware) == [local |-> local, off |-> off, aware |-> aware]

NullStr == [shape |-> "null", local |-> 0, off |-> 0]

DtStr(shape, local, off) == [shape |-> shape, local |-> local, off |-> off]

\* the instant a datetime denotes, in hours UTC (a naive one read as UTC)
Instant(dt) == dt.local - dt.off

\* The shapes of a timestamp string, with the branch that takes each:
\*   "null", "missing", "empty"  None, an absent key, "" (`if not dt_str`)
\*   "Z"               2025-01-01T12:00:00Z          (Z suffix)
\*   "Zgarbage"        a string ending in Z that is no timestamp
\*   "offset"          2025-01-01T12:00:00+01:00     (offset pattern)
\*   "plain"           2025-01-01T12:00:00           (offset-less pattern)
\*   "date"            2025-01-01                    (date pattern)
\*   "space"           2025-01-01 12:00:00           (strptime formats)
\*   "slash"           01/02/2025                    (strptime formats)
\*   "short"           2025-01-01T12:00              (last-resort fromisoformat)
\*   "fraction"        2025-01-01T12:00:00.5         (last-resort fromisoformat)
\*   "fractionoffset"  2025-01-01T12:00:00.5+01:00   (last-resort fromisoformat)
\*   "garbage"         any other string
\* local is the wall-clock reading in hours, off the offset in hours.
Falsy(s) == s.shape \in {"null", "empty", "missing"}

DayStart(local) == (local \div HoursPerDay) * HoursPerDay

\* a variant that catches no ValueError
ParseCaught_noValueError == {"TypeError", "AttributeError"}

\* `except (ValueError, TypeError, AttributeError)`
ParseCaught == {"ValueError", "TypeError", "AttributeError"}

\* the body of the try block: the value returned, or the exception raised
ParseTry(s) ==
    CASE s.shape = "Z"              -> [raised |-> "", value |-> Dt(s.local, 0, TRUE)]
      [] s.shape = "Zgarbage"       -> [raised |-> "ValueError", value |-> DtNone]
      [] s.shape = "offset"         -> [raised |-> "", value |-> Dt(s.local, s.off, TRUE)]
      [] s.shape = "plain"          -> [raised |-> "", value |-> Dt(s.local, 0, TRUE)]
      [] s.shape = "date"           -> [raised |-> "", value |-> Dt(DayStart(s.local), 0, TRUE)]
      [] s.shape = "space"          -> [raised |-> "", value |-> Dt(s.local, 0, TRUE)]
      [] s.shape = "slash"          -> [raised |-> "", value |-> Dt(DayStart(s.local), 0, TRUE)]
      [] s.shape = "short"          -> [raised |-> "", value |-> Dt(s.local, 0, FALSE)]
      [] s.shape = "fraction"       -> [raised |-> "", value |-> Dt(s.local, 0, FALSE)]
      [] s.shape = "fractionoffset" -> [raised |-> "", value |-> Dt(s.local, s.off, TRUE)]
      [] OTHER                      -> [raised |-> "ValueError", value |-> DtNone]

\* "" when the call returns, else the exception that leaves it
parse_datetime_flexible_error(s) ==
    IF Falsy(s) \/ ParseTry(s).raised \in ParseCaught THEN "" ELSE ParseTry(s).raised

parse_datetime_flexible(s) ==
    IF Falsy(s) THEN DtNone
    ELSE IF ParseTry(s).raised # "" THEN DtNone
    ELSE ParseTry(s).value

ensure_timezone_aware(dt) ==
    IF dt = DtNone THEN DtNone
    ELSE IF ~dt.aware THEN Dt(dt.local, 0, TRUE)
    ELSE dt

\* a variant that relabels the wall clock as UTC instead of converting
normalize_datetime_for_comparison_relabel(dt) ==
    IF dt = DtNone THEN DtNone
    ELSE LET a == ensure_timezone_aware(dt)
         IN  Dt(a.local, 0, TRUE)

normalize_datetime_for_comparison(dt) ==
    IF dt = DtNone THEN DtNone
    ELSE LET a == ensure_timezone_aware(dt)
         IN  Dt(a.local - a.off, 0, TRUE)

\* datetime.__lt__ between two aware (or two naive) datetimes
DtLess(a, b) == Instant(a) < Instant(b)

\* comparing a naive with an aware datetime raises TypeError
Comparable(a, b) == a.aware = b.aware

\* strftime("%Y-%m-%d"): the calendar day of the wall-clock reading
DayKey(dt) == dt.local \div HoursPerDay

(***************************************************************************)
(* schemas.py: PullRequest.from_gh_json_direct                             *)
(*                                                                         *)
(* A pull-request node of a repository query. author is NoAuthor (null)    *)
(* or a record whose login may be "" (no login). The node names in absent  *)
(* the keys it lacks and in null the keys whose value is null.             *)
(***************************************************************************)
NoAuthor == [present |-> FALSE, login |-> ""]

Author(l) == [present |-> TRUE, login |-> l]

\* node.get(key, default) passed through str / int / bool: the default when
\* the key is absent, ifNull when its value is null, else the value
Get(node, key, default, ifNull) ==
    IF key \in node.absent THEN default
    ELSE IF key \in node.null THEN ifNull
    ELSE node[key]

\* str(None)
NoneText == <<"N", "o", "n", "e">>

\* the keyword arguments of cls(...) whose evaluation can raise, in order
PRArgumentOrder ==
    <<"number", "assignees", "labels", "repository", "additions", "deletions",
      "changedFiles", "reviews">>

\* int(None) raises TypeError, None.get raises AttributeError
PRArgumentError(content) ==
    LET bad == {k \in 1..Len(PRArgumentOrder) : PRArgumentOrder[k] \in content.null}
        first == PRArgumentOrder[CHOOSE k \in bad : \A j \in bad : k <= j]
    IN  IF bad = {} THEN ""
        ELSE IF first \in {"number", "additions", "deletions", "changedFiles"}
        THEN "TypeError" ELSE "AttributeError"

\* "" when the record is built, else the exception raised
PullRequest_direct_error(node) ==
    IF parse_datetime_flexible(node.createdAt) = DtNone
       \/ parse_datetime_flexible(node.updatedAt) = DtNone
    THEN "ValueError" ELSE PRArgumentError(node)

PullRequest_from_gh_json_direct(node) ==
    [id |-> node.id,
     title |-> Get(node, "title", << >>, NoneText),
     state |-> Get(node, "state", "", "None"),
     createdAt |-> parse_datetime_flexible(node.createdAt),
     updatedAt |-> parse_datetime_flexible(node.updatedAt),
     mergedAt |-> parse_datetime_flexible(node.mergedAt),
     merged |-> Get(node, "merged", FALSE, FALSE),
     author |-> node.author,
     baseRefName |-> Get(node, "baseRefName", "", "None"),
     additions |-> Get(node, "additions", 0, 0),
     deletions |-> Get(node, "deletions", 0, 0),
     changedFiles |-> Get(node, "changedFiles", 0, 0),
     iteration |-> "None"]

(***************************************************************************)
(* schemas.py: PullRequest.from_gh_json, on a project item: the pull       *)
(* request is under content, the field values beside it.                   *)
(***************************************************************************)
\* the iterationId of the first field value that has one, else "None"
IterationOfFieldValues(field_values) ==
    LET with == {k \in 1..Len(field_values) : field_values[k].iterationId # ""}
    IN  IF with = {} THEN "None"
        ELSE field_values[CHOOSE k \in with : \A j \in with : k <= j].iterationId

\* "" when the record is built, else the exception raised
PullRequest_error(node) ==
    IF parse_datetime_flexible(node.content.createdAt) = DtNone
       \/ parse_datetime_flexible(node.content.updatedAt) = DtNone
    THEN "ValueError" ELSE PRArgumentError(node.content)

\* a variant that leaves mergedAt unset
PullRequest_from_gh_json_noMergedAt(node) ==
    LET content == node.content
    IN  [id |-> content.id,
         title |-> Get(content, "title", << >>, NoneText),
         state |-> Get(content, "state", "", "None"),
         createdAt |-> parse_datetime_flexible(content.createdAt),
         updatedAt |-> parse_datetime_flexible(content.updatedAt),
         mergedAt |-> DtNone,
         merged |-> Get(content, "merged", FALSE, FALSE),
         author |-> content.author,
         baseRefName |-> Get(content, "baseRefName", "", "None"),
         additions |-> Get(content, "additions", 0, 0),
         deletions |-> Get(content, "deletions", 0, 0),
         changedFiles |-> Get(content, "changedFiles", 0, 0),
         iteration |-> IterationOfFieldValues(node.fieldValues)]

PullRequest_from_gh_json(node) ==
    LET content == node.content
    IN  [id |-> content.id,
         title |-> Get(content, "title", << >>, NoneText),
         state |-> Get(content, "state", "", "None"),
         createdAt |-> parse_datetime_flexible(content.createdAt),
         updatedAt |-> parse_datetime_flexible(content.updatedAt),
         mergedAt |-> parse_datetime_flexible(content.mergedAt),
         merged |-> Get(content, "merged", FALSE, FALSE),
         author |-> content.author,
         baseRefName |-> Get(content, "baseRefName", "", "None"),
         additions |-> Get(content, "additions", 0, 0),
         deletions |-> Get(content, "deletions", 0, 0),
         changedFiles |-> Get(content, "changedFiles", 0, 0),
         iteration |-> IterationOfFieldValues(node.fieldValues)]

(***************************************************************************)
(* schemas.py: RepoPRFilter. A criterion that is None (or falsy) is "" for *)
(* strings, << >> for the title pattern and DtNone for datetimes.          *)
(***************************************************************************)
EmptyPRFilter ==
    [title |-> << >>, state |-> "", merged_only |-> FALSE,
     merged_after |-> DtNone, merged_before |-> DtNone,
     updated_after |-> DtNone, updated_before |-> DtNone,
     created_after |-> DtNone, created_before |-> DtNone,
     author |-> "", base_ref |-> ""]

(***************************************************************************)
(* report.py: the filter of get_repo_prs_direct, one operator per check.   *)
(* Each says when the check sets valid_pr to False.                        *)
(***************************************************************************)
\* lower bound: `n and b and n < b` on the normalized values
BelowBound(value, bound) ==
    LET n == normalize_datetime_for_comparison(value)
        b == normalize_datetime_for_comparison(bound)
    IN  n # DtNone /\ b # DtNone /\ DtLess(n, b)

AboveBound(value, bound) ==
    LET n == normalize_datetime_for_comparison(value)
        b == normalize_datetime_for_comparison(bound)
    IN  n # DtNone /\ b # DtNone /\ DtLess(b, n)

TitleFails(f, pr) == f.title # << >> /\ ~StartsWith(pr.title, f.title)

StateFails(f, pr) == f.state # "" /\ pr.state # f.state

MergedOnlyFails(f, pr) == f.merged_only /\ ~pr.merged

\* a variant that lets a pull request without merge time pass the lower bound
MergedAfterFails_keepUnmerged(f, pr) ==
    f.merged_after # DtNone /\ BelowBound(pr.mergedAt, f.merged_after)

MergedAfterFails(f, pr) ==
    f.merged_after # DtNone
    /\ (pr.mergedAt = DtNone \/ BelowBound(pr.mergedAt, f.merged_after))

\* a variant of the fetch filter without the upper bound on the merge time
MergedBeforeFails_never(f, pr) == FALSE

MergedBeforeFails(f, pr) ==
    f.merged_before # DtNone
    /\ (pr.mergedAt = DtNone \/ AboveBound(pr.mergedAt, f.merged_before))

UpdatedAfterFails(f, pr) ==
    f.updated_after # DtNone /\ BelowBound(pr.updatedAt, f.updated_after)

UpdatedBeforeFails(f, pr) ==
    f.updated_before # DtNone /\ AboveBound(pr.updatedAt, f.updated_before)

CreatedAfterFails(f, pr) ==
    f.created_after # DtNone /\ BelowBound(pr.createdAt, f.created_after)

CreatedBeforeFails(f, pr) ==
    f.created_before # DtNone /\ AboveBound(pr.createdAt, f.created_before)

AuthorFails(f, pr) ==
    f.author # "" /\ (~pr.author.present \/ pr.author.login # f.author)

BaseRefFails(f, pr) == f.base_ref # "" /\ pr.baseRefName # f.base_ref

\* a variant of the flag logic in which the last check assigns its own verdict
valid_pr_reassigned(f, pr) ==
    LET v1  == IF TitleFails(f, pr) THEN FALSE ELSE TRUE
        v2  == IF StateFails(f, pr) THEN FALSE ELSE v1
        v3  == IF MergedOnlyFails(f, pr) THEN FALSE ELSE v2
        v4  == IF MergedAfterFails(f, pr) THEN FALSE ELSE v3
        v5  == IF MergedBeforeFails(f, pr) THEN FALSE ELSE v4
        v6  == IF UpdatedAfterFails(f, pr) THEN FALSE ELSE v5
        v7  == IF UpdatedBeforeFails(f, pr) THEN FALSE ELSE v6
        v8  == IF CreatedAfterFails(f, pr) THEN FALSE ELSE v7
        v9  == IF CreatedBeforeFails(f, pr) THEN FALSE ELSE v8
        v10 == IF AuthorFails(f, pr) THEN FALSE ELSE v9
        v11 == IF f.base_ref # "" THEN ~BaseRefFails(f, pr) ELSE v10
    IN  v11

\* valid_pr after the checks of lines 61-115, in the order the code runs them
valid_pr(f, pr) ==
    LET v1  == IF TitleFails(f, pr) THEN FALSE ELSE TRUE
        v2  == IF StateFails(f, pr) THEN FALSE ELSE v1
        v3  == IF MergedOnlyFails(f, pr) THEN FALSE ELSE v2
        v4  == IF MergedAfterFails(f, pr) THEN FALSE ELSE v3
        v5  == IF MergedBeforeFails(f, pr) THEN FALSE ELSE v4
        v6  == IF UpdatedAfterFails(f, pr) THEN FALSE ELSE v5
        v7  == IF UpdatedBeforeFails(f, pr) THEN FALSE ELSE v6
        v8  == IF CreatedAfterFails(f, pr) THEN FALSE ELSE v7
        v9  == IF CreatedBeforeFails(f, pr) THEN FALSE ELSE v8
        v10 == IF AuthorFails(f, pr) THEN FALSE ELSE v9
        v11 == IF BaseRefFails(f, pr) THEN FALSE ELSE v10
    IN  v11

\* the `for node in nodes` loop: maps, filters and appends, or raises
RECURSIVE PRNodeLoop(_, _, _)
PRNodeLoop(nodes, f, prs) ==
    IF nodes = << >> THEN [err |-> "", list |-> prs]
    ELSE LET node == Head(nodes)
             pr == PullRequest_from_gh_json_direct(node)
         IN  IF PullRequest_direct_error(node) # ""
             THEN [err |-> PullRequest_direct_error(node), list |-> prs]
             ELSE PRNodeLoop(Tail(nodes), f,
                      IF valid_pr(f, pr) THEN Append(prs, pr) ELSE prs)

MappablePR(node) == PullRequest_direct_error(node) = ""

\* a variant that starts each page with an empty list
ProcessPRPage_resetList(nodes, f, prs) == PRNodeLoop(nodes, f, << >>)

\* a variant that skips the nodes the mapper rejects and carries on
ProcessPRPage_skipBad(nodes, f, prs) == PRNodeLoop(SelectSeq(nodes, MappablePR), f, prs)

\* lines 59-118 of get_repo_prs_direct on one page, prs being the list so far
ProcessPRPage(nodes, f, prs) == PRNodeLoop(nodes, f, prs)

(***************************************************************************)
(* schemas.py: Iteration.from_gh_json. A missing duration is NoDuration.   *)
(* A source node names in absent the keys it lacks and in null the keys    *)
(* whose value is null.                                                    *)
(***************************************************************************)
NoDuration == -1

\* timedelta.days of b - a: whole days, rounded down
DaysBetween(a, b) == (Instant(b) - Instant(a)) \div HoursPerDay

\* start + timedelta(days=n): the wall clock moves, the offset stays
PlusDays(dt, n) == Dt(dt.local + n * HoursPerDay, dt.off, dt.aware)

\* "" when the record is built, else the exception raised
Iteration_error(n) ==
    LET start == parse_datetime_flexible(n.startDate)
        end == parse_datetime_flexible(n.endDate)
    IN  IF start # DtNone /\ end # DtNone /\ n.duration \in {NoDuration, 0}
           /\ ~Comparable(start, end)
        THEN "TypeError"
        ELSE IF "id" \in n.absent THEN "KeyError"
        ELSE IF "id" \in n.null THEN "ValidationError"
        ELSE ""

Iteration_from_gh_json(n) ==
    LET start == parse_datetime_flexible(n.startDate)
        end == parse_datetime_flexible(n.endDate)
        duration1 == IF start # DtNone /\ end # DtNone /\ n.duration \in {NoDuration, 0}
                     THEN DaysBetween(start, end) ELSE n.duration
        end1 == IF start # DtNone /\ duration1 \notin {NoDuration, 0} /\ end = DtNone
                THEN PlusDays(start, duration1) ELSE end
    IN  [id |-> n.id, start_date |-> start, end_date |-> end1, duration |-> duration1]

(***************************************************************************)
(* schemas.py: Issue.from_gh_json, on a project item that carries content. *)
(* iterationId is "" when no field value is named Iteration. The item      *)
(* names in absent the keys it (or its content) lacks and in null the keys *)
(* whose value is null.                                                    *)
(***************************************************************************)
\* the keys of content read by the keyword arguments of cls(...), in order
IssueArgumentOrder ==
    <<"id", "title", "url", "state", "body", "author", "assignees", "labels",
      "repository">>

\* content[key] raises KeyError when the key is absent; User(**None) and
\* None["nodes"] raise TypeError; a null left in a str field fails validation
IssueArgumentError(content) ==
    LET raising == {k \in 1..Len(IssueArgumentOrder) :
                       \/ IssueArgumentOrder[k] \in content.absent
                       \/ /\ IssueArgumentOrder[k] \in content.null
                          /\ IssueArgumentOrder[k] \in {"author", "assignees", "labels",
                                                        "repository"}}
        first == IssueArgumentOrder[CHOOSE k \in raising : \A j \in raising : k <= j]
    IN  IF raising # {}
        THEN (IF first \in content.absent THEN "KeyError" ELSE "TypeError")
        ELSE IF content.null \cap {"id", "title", "url", "state", "body"} # {}
        THEN "ValidationError"
        ELSE ""

\* "" when the record is built, else the exception raised
Issue_error(node) ==
    IF "fieldValues" \in node.absent THEN "KeyError"
    ELSE IF "fieldValues" \in node.null THEN "TypeError"
    ELSE IF node.createdAt.shape = "missing" \/ node.updatedAt.shape = "missing"
    THEN "KeyError"
    ELSE IF parse_datetime_flexible(node.createdAt) = DtNone
            \/ parse_datetime_flexible(node.updatedAt) = DtNone
    THEN "ValueError"
    ELSE IssueArgumentError(node)

Issue_from_gh_json(node) ==
    [id |-> node.id, title |-> node.title, state |-> node.state,
     createdAt |-> parse_datetime_flexible(node.createdAt),
     updatedAt |-> parse_datetime_flexible(node.updatedAt),
     iteration |-> node.iterationId]

EmptyRepoFilter ==
    [title |-> << >>, iteration_id |-> "", state |-> "",
     updated_after |-> DtNone, updated_before |-> DtNone]

(***************************************************************************)
(* app.py: the filter of get_repo_issues. The updated_after/updated_before *)
(* checks compare task.updatedAt with the bound as it arrived.             *)
(***************************************************************************)
\* "" when every comparison can be made, else the exception raised
IssueFilterError(f, task) ==
    IF \/ (f.updated_after # DtNone /\ ~Comparable(task.updatedAt, f.updated_after))
       \/ (f.updated_before # DtNone /\ ~Comparable(task.updatedAt, f.updated_before))
    THEN "TypeError" ELSE ""

IssueTitleFails(f, task) == f.title # << >> /\ ~StartsWith(task.title, f.title)

IssueIterationFails(f, task) ==
    f.iteration_id # "" /\ ~(task.iteration # "" /\ task.iteration = f.iteration_id)

IssueStateFails(f, task) == f.state # "" /\ task.state # f.state

IssueUpdatedAfterFails(f, task) ==
    f.updated_after # DtNone /\ DtLess(task.updatedAt, f.updated_after)

IssueUpdatedBeforeFails(f, task) ==
    f.updated_before # DtNone /\ DtLess(f.updated_before, task.updatedAt)

\* a variant of the flag logic in which the state check assigns its own verdict
valid_task_reassigned(f, task) ==
    LET v1 == IF IssueTitleFails(f, task) THEN FALSE ELSE TRUE
        v2 == IF IssueIterationFails(f, task) THEN FALSE ELSE v1
        v3 == IF f.state # "" THEN ~IssueStateFails(f, task) ELSE v2
        v4 == IF IssueUpdatedAfterFails(f, task) THEN FALSE ELSE v3
        v5 == IF IssueUpdatedBeforeFails(f, task) THEN FALSE ELSE v4
    IN  v5

\* valid_task after the checks of lines 185-202, in the order the code runs them
valid_task(f, task) ==
    LET v1 == IF IssueTitleFails(f, task) THEN FALSE ELSE TRUE
        v2 == IF IssueIterationFails(f, task) THEN FALSE ELSE v1
        v3 == IF IssueStateFails(f, task) THEN FALSE ELSE v2
        v4 == IF IssueUpdatedAfterFails(f, task) THEN FALSE ELSE v3
        v5 == IF IssueUpdatedBeforeFails(f, task) THEN FALSE ELSE v4
    IN  v5

\* the `for node in nodes` loop of get_repo_issues
RECURSIVE IssueNodeLoop(_, _, _)
IssueNodeLoop(nodes, f, tasks) ==
    IF nodes = << >> THEN [err |-> "", list |-> tasks]
    ELSE LET node == Head(nodes)
             task == Issue_from_gh_json(node)
         IN  IF ~node.hasContent THEN IssueNodeLoop(Tail(nodes), f, tasks)
             ELSE IF Issue_error(node) # ""
             THEN [err |-> Issue_error(node), list |-> tasks]
             ELSE IF IssueFilterError(f, task) # ""
             THEN [err |-> IssueFilterError(f, task), list |-> tasks]
             ELSE IssueNodeLoop(Tail(nodes), f,
                      IF valid_task(f, task) THEN Append(tasks, task) ELSE tasks)

MappableIssue(node) == ~node.hasContent \/ Issue_error(node) = ""

\* a variant that starts each page with an empty list
ProcessIssuePage_resetList(nodes, f, tasks) == IssueNodeLoop(nodes, f, << >>)

\* a variant that skips the nodes the mapper rejects and carries on
ProcessIssuePage_skipBad(nodes, f, tasks) == IssueNodeLoop(SelectSeq(nodes, MappableIssue), f, tasks)

\* lines 182-205 of get_repo_issues on one page, tasks being the list so far
ProcessIssuePage(nodes, f, tasks) == IssueNodeLoop(nodes, f, tasks)

(***************************************************************************)
(* report.py: PRAnalyzer                                                   *)
(***************************************************************************)
NoAnalytics == [isNone |-> TRUE]

RECURSIVE SortedSeq(_)
SortedSeq(S) ==
    IF S = {} THEN << >>
    ELSE LET m == CHOOSE x \in S : \A y \in S : x <= y
         IN  <<m>> \o SortedSeq(S \ {m})

Additions(pr) == pr.additions

Deletions(pr) == pr.deletions

ChangedFiles(pr) == pr.changedFiles

HasLogin(pr) == pr.author.present /\ pr.author.login # ""

\* a variant whose bounds are exclusive
InDateRange_exclusive(pr, start, end) ==
    /\ pr.mergedAt # DtNone
    /\ LET merge_date == normalize_datetime_for_comparison(pr.mergedAt)
           start_dt == normalize_datetime_for_comparison(start)
           end_dt == normalize_datetime_for_comparison(end)
       IN  /\ merge_date # DtNone
           /\ ~(start_dt # DtNone /\ ~DtLess(start_dt, merge_date))
           /\ ~(end_dt # DtNone /\ ~DtLess(merge_date, end_dt))

\* the test of one pull request in _filter_prs_by_date
InDateRange(pr, start, end) ==
    /\ pr.mergedAt # DtNone
    /\ LET merge_date == normalize_datetime_for_comparison(pr.mergedAt)
           start_dt == normalize_datetime_for_comparison(start)
           end_dt == normalize_datetime_for_comparison(end)
       IN  /\ merge_date # DtNone
           /\ ~(start_dt # DtNone /\ DtLess(merge_date, start_dt))
           /\ ~(end_dt # DtNone /\ DtLess(end_dt, merge_date))

\* a variant that keeps every merged pull request whatever the bounds
filter_prs_by_date_mergedOnly(prs, start, end) ==
    SelectSeq(prs, LAMBDA pr : pr.mergedAt # DtNone)

filter_prs_by_date(prs, start, end) ==
    SelectSeq(prs, LAMBDA pr : InDateRange(pr, start, end))

\* datetime.now() made aware, the value used when no merge date is left
Now == Dt(4 * HoursPerDay, 0, TRUE)

\* a variant that takes min / max over the wall-clock readings as given
get_time_period_wallClock(prs) ==
    LET merge_dates == {prs[i].mergedAt.local :
                            i \in {j \in 1..Len(prs) : prs[j].mergedAt # DtNone}}
    IN  IF merge_dates = {} THEN [start |-> Now, end |-> Now]
        ELSE [start |-> Dt(CHOOSE x \in merge_dates : \A y \in merge_dates : x <= y, 0, TRUE),
              end |-> Dt(CHOOSE x \in merge_dates : \A y \in merge_dates : x >= y, 0, TRUE)]

\* min / max over the normalized merge dates
get_time_period(prs) ==
    LET merge_dates == {Instant(normalize_datetime_for_comparison(prs[i].mergedAt)) :
                            i \in {j \in 1..Len(prs) : prs[j].mergedAt # DtNone}}
    IN  IF merge_dates = {} THEN [start |-> Now, end |-> Now]
        ELSE [start |-> Dt(CHOOSE x \in merge_dates : \A y \in merge_dates : x <= y, 0, TRUE),
              end |-> Dt(CHOOSE x \in merge_dates : \A y \in merge_dates : x >= y, 0, TRUE)]

\* a variant in which a bucket keeps the additions of its last pull request only
DayBucket_overwrite(prs, day) ==
    LET mine == SelectSeq(prs, LAMBDA pr : pr.mergedAt # DtNone /\ DayKey(pr.mergedAt) = day)
        authors == {mine[i].author.login : i \in {j \in 1..Len(mine) : HasLogin(mine[j])}}
    IN  [date |-> day,
         additions |-> mine[Len(mine)].additions,
         deletions |-> SumSeq(MapSeq(mine, Deletions)),
         prs |-> Len(mine),
         net_change |-> SumSeq(MapSeq(mine, Additions)) - SumSeq(MapSeq(mine, Deletions)),
         files_changed |-> SumSeq(MapSeq(mine, ChangedFiles)),
         author_count |-> Cardinality(authors),
         authors |-> authors]

\* the bucket of one day_key
DayBucket(prs, day) ==
    LET mine == SelectSeq(prs, LAMBDA pr : pr.mergedAt # DtNone /\ DayKey(pr.mergedAt) = day)
        authors == {mine[i].author.login : i \in {j \in 1..Len(mine) : HasLogin(mine[j])}}
    IN  [date |-> day,
         additions |-> SumSeq(MapSeq(mine, Additions)),
         deletions |-> SumSeq(MapSeq(mine, Deletions)),
         prs |-> Len(mine),
         net_change |-> SumSeq(MapSeq(mine, Additions)) - SumSeq(MapSeq(mine, Deletions)),
         files_changed |-> SumSeq(MapSeq(mine, ChangedFiles)),
         author_count |-> Cardinality(authors),
         authors |-> authors]

calculate_daily_stats(prs) ==
    LET days == {DayKey(prs[i].mergedAt) : i \in {j \in 1..Len(prs) : prs[j].mergedAt # DtNone}}
        order == SortedSeq(days)
    IN  [k \in 1..Len(order) |-> DayBucket(prs, order[k])]

\* a variant in which a pull request merged at the same instant replaces the
\* first one seen
RECURSIVE FirstContribution_lastTie(_, _)
FirstContribution_lastTie(mine, first) ==
    IF mine = << >> THEN first
    ELSE LET m == Head(mine).mergedAt
         IN  FirstContribution_lastTie(Tail(mine),
                 IF m # DtNone
                    /\ (first = DtNone
                        \/ ~DtLess(normalize_datetime_for_comparison(first),
                                   normalize_datetime_for_comparison(m)))
                 THEN m ELSE first)

\* first_contribution after the author's pull requests, in input order
RECURSIVE FirstContribution(_, _)
FirstContribution(mine, first) ==
    IF mine = << >> THEN first
    ELSE LET m == Head(mine).mergedAt
         IN  FirstContribution(Tail(mine),
                 IF m # DtNone
                    /\ (first = DtNone
                        \/ DtLess(normalize_datetime_for_comparison(m),
                                  normalize_datetime_for_comparison(first)))
                 THEN m ELSE first)

\* last_contribution after the author's pull requests, in input order
RECURSIVE LastContribution(_, _)
LastContribution(mine, last) ==
    IF mine = << >> THEN last
    ELSE LET m == Head(mine).mergedAt
         IN  LastContribution(Tail(mine),
                 IF m # DtNone
                    /\ (last = DtNone
                        \/ DtLess(normalize_datetime_for_comparison(last),
                                  normalize_datetime_for_comparison(m)))
                 THEN m ELSE last)

\* the entry of one author login
ContributorEntry(prs, login) ==
    LET mine == SelectSeq(prs, LAMBDA pr : HasLogin(pr) /\ pr.author.login = login)
    IN  [prs |-> Len(mine),
         additions |-> SumSeq(MapSeq(mine, Additions)),
         deletions |-> SumSeq(MapSeq(mine, Deletions)),
         files_changed |-> SumSeq(MapSeq(mine, ChangedFiles)),
         first_contribution |-> FirstContribution(mine, DtNone),
         last_contribution |-> LastContribution(mine, DtNone),
         net_change |-> SumSeq(MapSeq(mine, Additions)) - SumSeq(MapSeq(mine, Deletions))]

analyze_contributors(prs) ==
    LET logins == {prs[i].author.login : i \in {j \in 1..Len(prs) : HasLogin(prs[j])}}
    IN  [l \in logins |-> ContributorEntry(prs, l)]

\* str.lower on the letters the titles of the model use
Lower(c) ==
    CASE c = "F" -> "f" [] c = "I" -> "i" [] c = "X" -> "x" [] c = "E" -> "e"
      [] c = "A" -> "a" [] c = "T" -> "t" [] c = "R" -> "r" [] c = "C" -> "c"
      [] c = "D" -> "d" [] c = "O" -> "o" [] c = "S" -> "s" [] c = "H" -> "h"
      [] OTHER -> c

\* a variant that compares the title as written
PRType_caseSensitive(pr) ==
    LET title == pr.title
    IN  IF StartsWith(title, <<"f", "e", "a", "t">>) THEN "features"
        ELSE IF StartsWith(title, <<"f", "i", "x">>) THEN "fixes"
        ELSE IF StartsWith(title, <<"r", "e", "f", "a", "c", "t", "o", "r">>) THEN "refactors"
        ELSE IF StartsWith(title, <<"c", "h", "o", "r", "e">>) THEN "chores"
        ELSE IF StartsWith(title, <<"d", "o", "c", "s">>) THEN "documentation"
        ELSE IF StartsWith(title, <<"t", "e", "s", "t">>) THEN "tests"
        ELSE "other"

PRType(pr) ==
    LET title == MapSeq(pr.title, Lower)
    IN  IF StartsWith(title, <<"f", "e", "a", "t">>) THEN "features"
        ELSE IF StartsWith(title, <<"f", "i", "x">>) THEN "fixes"
        ELSE IF StartsWith(title, <<"r", "e", "f", "a", "c", "t", "o", "r">>) THEN "refactors"
        ELSE IF StartsWith(title, <<"c", "h", "o", "r", "e">>) THEN "chores"
        ELSE IF StartsWith(title, <<"d", "o", "c", "s">>) THEN "documentation"
        ELSE IF StartsWith(title, <<"t", "e", "s", "t">>) THEN "tests"
        ELSE "other"

analyze_pr_types(prs) ==
    LET types == {PRType(prs[i]) : i \in 1..Len(prs)}
    IN  [t \in types |-> Len(SelectSeq(prs, LAMBDA pr : PRType(pr) = t))]

\* a variant whose net_change leaves the deletions out
calculate_total_stats_grossChange(prs) ==
    LET total_additions == SumSeq(MapSeq(prs, Additions))
        total_deletions == SumSeq(MapSeq(prs, Deletions))
        authors == {prs[i].author.login : i \in {j \in 1..Len(prs) : HasLogin(prs[j])}}
    IN  [total_prs |-> Len(prs),
         total_additions |-> total_additions,
         total_deletions |-> total_deletions,
         net_change |-> total_additions,
         total_files |-> SumSeq(MapSeq(prs, ChangedFiles)),
         active_contributors |-> Cardinality(authors),
         contributors |-> authors]

calculate_total_stats(prs) ==
    LET total_additions == SumSeq(MapSeq(prs, Additions))
        total_deletions == SumSeq(MapSeq(prs, Deletions))
        authors == {prs[i].author.login : i \in {j \in 1..Len(prs) : HasLogin(prs[j])}}
    IN  [total_prs |-> Len(prs),
         total_additions |-> total_additions,
         total_deletions |-> total_deletions,
         net_change |-> total_additions - total_deletions,
         total_files |-> SumSeq(MapSeq(prs, ChangedFiles)),
         active_contributors |-> Cardinality(authors),
         contributors |-> authors]

\* `if not filtered_prs: raise ValueError(...)`
NoDataRaised(filtered_prs) == filtered_prs = << >>

\* analyze_time_period: NoAnalytics when it raises, else the AnalyticsData
analyze_time_period(prs, start, end) ==
    LET filtered_prs == filter_prs_by_date(prs, start, end)
    IN  IF NoDataRaised(filtered_prs) THEN NoAnalytics
        ELSE [daily_stats |-> calculate_daily_stats(filtered_prs),
              contributor_analysis |-> analyze_contributors(filtered_prs),
              pr_type_analysis |-> analyze_pr_types(filtered_prs),
              total_stats |-> calculate_total_stats(filtered_prs),
              time_period |-> get_time_period(filtered_prs)]

(***************************************************************************)
(* The inputs of the model: upstream nodes, requests, responses.           *)
(***************************************************************************)
Fix == <<"f", "i", "x">>

Feat == <<"F", "e", "a", "t">>

NodeA ==
    [id |-> 1, title |-> Fix, state |-> "MERGED",
     createdAt |-> DtStr("Z", 10, 0), updatedAt |-> DtStr("Z", 20, 0),
     mergedAt |-> DtStr("Z", 30, 0), merged |-> TRUE, author |-> Author("alice"),
     baseRefName |-> "main", additions |-> 5, deletions |-> 2, changedFiles |-> 1,
     absent |-> {}, null |-> {}]

NodeB ==
    [id |-> 2, title |-> Feat, state |-> "OPEN",
     createdAt |-> DtStr("Z", 12, 0), updatedAt |-> DtStr("offset", 41, 1),
     mergedAt |-> NullStr, merged |-> FALSE, author |-> NoAuthor,
     baseRefName |-> "dev", additions |-> 3, deletions |-> 1, changedFiles |-> 2,
     absent |-> {}, null |-> {}]

NodeX ==
    [id |-> 3, title |-> Fix, state |-> "OPEN",
     createdAt |-> DtStr("Z", 10, 0), updatedAt |-> NullStr,
     mergedAt |-> NullStr, merged |-> FALSE, author |-> Author("bob"),
     baseRefName |-> "main", additions |-> 1, deletions |-> 0, changedFiles |-> 1,
     absent |-> {}, null |-> {}]

PRNodes == {NodeA, NodeB, NodeX}

PRFilters == {EmptyPRFilter, [EmptyPRFilter EXCEPT !.state = "OPEN"]}

\* PRAnalyticsRequest: merged_after and merged_before always hold a datetime
ReportRequests ==
    {[EmptyPRFilter EXCEPT !.merged_after = Dt(0, 0, FALSE), !.merged_before = Dt(100, 0, FALSE)],
     [EmptyPRFilter EXCEPT !.merged_after = Dt(0, 0, FALSE), !.merged_before = Dt(20, 0, FALSE)]}

ItemA ==
    [hasContent |-> TRUE, id |-> 1, title |-> Fix, state |-> "OPEN",
     createdAt |-> DtStr("Z", 10, 0), updatedAt |-> DtStr("Z", 20, 0), iterationId |-> "it1",
     absent |-> {}, null |-> {}]

ItemNoContent ==
    [hasContent |-> FALSE, id |-> 2, title |-> << >>, state |-> "",
     createdAt |-> NullStr, updatedAt |-> NullStr, iterationId |-> "",
     absent |-> {}, null |-> {}]

ItemX ==
    [hasContent |-> TRUE, id |-> 3, title |-> Feat, state |-> "CLOSED",
     createdAt |-> NullStr, updatedAt |-> DtStr("Z", 20, 0), iterationId |-> "",
     absent |-> {}, null |-> {}]

IssueNodes == {ItemA, ItemNoContent, ItemX}

RepoFilters ==
    {EmptyRepoFilter,
     [EmptyRepoFilter EXCEPT !.updated_after = Dt(15, 0, FALSE)]}

\* a response: a transport failure, a non-success status, or a GraphQL body
FailedResponse(kind) ==
    [kind |-> kind, errors |-> FALSE, hasData |-> FALSE, nodes |-> << >>,
     hasNextPage |-> FALSE, endCursor |-> 0]

Body(errors, hasData, nodes, hasNextPage, endCursor) ==
    [kind |-> "ok", errors |-> errors, hasData |-> hasData, nodes |-> nodes,
     hasNextPage |-> hasNextPage, endCursor |-> endCursor]

\* the node lists of a page: a connection lists a node once
PageNodes(nodeSet, n) ==
    {ns \in SeqsUpTo(nodeSet, n) : \A i, j \in 1..Len(ns) : i # j => ns[i] # ns[j]}

\* what the upstream may answer to a request for the page after cursor c
Responses(nodeSet, c) ==
    {FailedResponse("net_fail"), FailedResponse("http_error")}
    \cup {Body(FALSE, TRUE, ns, h, c + 1) : ns \in PageNodes(nodeSet, MaxNodes), h \in BOOLEAN}
    \cup {Body(TRUE, FALSE, << >>, FALSE, 0)}
    \cup {Body(TRUE, TRUE, ns, h, c + 1) : ns \in SeqsUpTo(nodeSet, 1), h \in BOOLEAN}

FieldNodes ==
    {[name |-> "Iteration",
      iterations |-> <<[id |-> "it1", startDate |-> DtStr("date", 24, 0),
                        endDate |-> NullStr, duration |-> 14,
                        absent |-> {}, null |-> {}]>>],
     [name |-> "Status", iterations |-> << >>]}

ProjectIDs == {[organization |-> "aurelio-labs", project_number |-> 1]}

\* what the upstream may answer to a query that is not paginated
SingleResponses(nodeSet) ==
    {FailedResponse("net_fail"), FailedResponse("http_error"),
     Body(TRUE, FALSE, << >>, FALSE, 0)}
    \cup {Body(e, TRUE, ns, FALSE, 0) : e \in BOOLEAN, ns \in SeqsUpTo(nodeSet, MaxNodes)}

\* os.environ["GITHUB_PAT"]: not set, set to the empty string, set to a token
Environments == {"unset", "", "ghp_token"}

(***************************************************************************)
(* The state after the module is loaded. With GITHUB_PAT not set the       *)
(* import raises KeyError and no tool exists.                              *)
(***************************************************************************)
Loaded(env) ==
    /\ PAT = (IF env = "unset" THEN "" ELSE env)
    /\ pc = (IF env = "unset" THEN "import_failed" ELSE "idle")
    /\ tool = "none"
    /\ filter = [none |-> TRUE]
    /\ after = 0
    /\ acc = << >>
    /\ requests = << >>
    /\ served = << >>
    /\ outcome = "none"
    /\ returned = << >>
    /\ analytics = NoAnalytics
    /\ html = FALSE

AnalyzerOff ==
    /\ pull_requests = << >>
    /\ start_date = DtNone
    /\ end_date = DtNone
    /\ apc = "off"

\* no stand-alone call of a mapper or parser
NoArg == [isNone |-> TRUE]

NoResult == [pending |-> TRUE]

NoCall == fn = "none" /\ arg = NoArg /\ result = NoResult

\* no concurrent invocations are being followed
NoFrames == frames = << >> /\ upstream = << >>

Init == (\E env \in Environments : Loaded(env)) /\ AnalyzerOff /\ NoCall /\ NoFrames

(***************************************************************************)
(* Steps shared by the handlers.                                           *)
(***************************************************************************)
\* the call ends by raising `kind`
Raise(kind) ==
    /\ pc' = "failed"
    /\ outcome' = kind
    /\ returned' = << >>

\* the call returns `value`
Return(value) ==
    /\ pc' = "done"
    /\ outcome' = "ok"
    /\ returned' = value

\* a variant that asks for the first page again on every turn
Post_fromStart(cursor) ==
    /\ pc' = "await"
    /\ requests' = Append(requests, 0)
    /\ UNCHANGED <<outcome, returned>>

\* client.post is awaited with variables["after"] = cursor
Post(cursor) ==
    /\ pc' = "await"
    /\ requests' = Append(requests, cursor)
    /\ UNCHANGED <<outcome, returned>>

\* a cursor asked for twice is answered by the same page
SamePageAgain(resp) ==
    \A i \in 1..Len(served) :
        (requests[i] = requests[Len(requests)] /\ served[i].kind = "ok" /\ resp.kind = "ok")
            => resp = served[i]

\* the call is suspended in client.post and the upstream has not answered yet
Awaiting(t) == tool = t /\ pc = "await" /\ Len(served) < MaxPages

Answered(resp) ==
    /\ SamePageAgain(resp)
    /\ served' = Append(served, resp)

\* what client.post / raise_for_status raise on this response ("" when nothing)
TransportError(resp) ==
    CASE resp.kind = "net_fail" -> "ConnectError"
      [] resp.kind = "http_error" -> "HTTPStatusError"
      [] OTHER -> ""

(***************************************************************************)
(* report.py: get_repo_prs_direct, called by the tools get_repo_prs and    *)
(* generate_pr_analytics_report.                                           *)
(***************************************************************************)
\* a variant of the token test that lets the empty token through
TokenMissingPRs_never(pat) == FALSE

\* `if not PAT` of get_repo_prs_direct
TokenMissingPRs(pat) == pat = ""

\* a variant of the loop test that goes on while pages carry nodes
HasNextPagePRs_whileNodes(resp) == resp.nodes # << >>

\* pageInfo.hasNextPage of the page, the test that keeps the loop going
HasNextPagePRs(resp) == resp.hasNextPage

StartPRsDirect(t, f) ==
    /\ pc = "idle"
    /\ tool' = t
    /\ filter' = f
    /\ IF TokenMissingPRs(PAT)
       THEN Raise("401") /\ UNCHANGED requests
       ELSE Post(after)
    /\ UNCHANGED <<PAT, after, acc, served, analytics, html, analyzerVars, callVars, frameVars>>

InvokeGetRepoPRs(f) == StartPRsDirect("get_repo_prs", f)

InvokeReport(request) == StartPRsDirect("generate_pr_analytics_report", request)

ReceivePRs(responses) ==
    /\ Awaiting("get_repo_prs") \/ Awaiting("generate_pr_analytics_report")
    /\ \E resp \in responses :
       /\ Answered(resp)
       /\ LET page == ProcessPRPage(resp.nodes, filter, acc)
          IN  IF TransportError(resp) # ""
              THEN Raise(TransportError(resp)) /\ UNCHANGED <<acc, after, requests>>
              ELSE IF resp.errors
              THEN Raise("500") /\ UNCHANGED <<acc, after, requests>>
              ELSE IF page.err # ""
              THEN Raise(page.err) /\ acc' = page.list /\ UNCHANGED <<after, requests>>
              ELSE IF HasNextPagePRs(resp)
              THEN /\ acc' = page.list
                   /\ after' = resp.endCursor
                   /\ Post(resp.endCursor)
              ELSE /\ acc' = page.list
                   /\ UNCHANGED <<after, requests>>
                   /\ IF tool = "get_repo_prs"
                      THEN Return(page.list)
                      ELSE pc' = "analyze" /\ UNCHANGED <<outcome, returned>>
    /\ UNCHANGED <<PAT, tool, filter, analytics, html, analyzerVars, callVars, frameVars>>

(***************************************************************************)
(* app.py: generate_pr_analytics_report after the fetch.                   *)
(***************************************************************************)
\* a variant that goes on to the rendering when the analysis raised
Analyze_goOn ==
    /\ tool = "generate_pr_analytics_report"
    /\ pc = "analyze"
    /\ analytics' = analyze_time_period(acc, filter.merged_after, filter.merged_before)
    /\ pc' = "render" /\ UNCHANGED <<outcome, returned>>
    /\ UNCHANGED <<PAT, tool, filter, after, acc, requests, served, html, analyzerVars, callVars, frameVars>>

Analyze ==
    /\ tool = "generate_pr_analytics_report"
    /\ pc = "analyze"
    /\ analytics' = analyze_time_period(acc, filter.merged_after, filter.merged_before)
    /\ IF analytics' = NoAnalytics
       THEN Raise("NoData")
       ELSE pc' = "render" /\ UNCHANGED <<outcome, returned>>
    /\ UNCHANGED <<PAT, tool, filter, after, acc, requests, served, html, analyzerVars, callVars, frameVars>>

Render ==
    /\ tool = "generate_pr_analytics_report"
    /\ pc = "render"
    /\ html' = TRUE
    /\ Return(<< >>)
    /\ UNCHANGED <<PAT, tool, filter, after, acc, requests, served, analytics, analyzerVars, callVars, frameVars>>

(***************************************************************************)
(* app.py: get_repo_issues                                                 *)
(***************************************************************************)
\* `if not PAT` of get_repo_issues
TokenMissingIssues(pat) == pat = ""

\* pageInfo.hasNextPage of the page, the test that keeps the loop going
HasNextPageIssues(resp) == resp.hasNextPage

InvokeGetRepoIssues(f) ==
    /\ pc = "idle"
    /\ tool' = "get_repo_issues"
    /\ filter' = f
    /\ IF TokenMissingIssues(PAT)
       THEN Raise("401") /\ UNCHANGED requests
       ELSE Post(after)
    /\ UNCHANGED <<PAT, after, acc, served, analytics, html, analyzerVars, callVars, frameVars>>

ReceiveIssues(responses) ==
    /\ Awaiting("get_repo_issues")
    /\ \E resp \in responses :
       /\ Answered(resp)
       /\ LET page == ProcessIssuePage(resp.nodes, filter, acc)
          IN  IF TransportError(resp) # ""
              THEN Raise(TransportError(resp)) /\ UNCHANGED <<acc, after, requests>>
              ELSE IF ~resp.hasData
              THEN Raise("TypeError") /\ UNCHANGED <<acc, after, requests>>
              ELSE IF page.err # ""
              THEN Raise(page.err) /\ acc' = page.list /\ UNCHANGED <<after, requests>>
              ELSE IF HasNextPageIssues(resp)
              THEN /\ acc' = page.list
                   /\ after' = resp.endCursor
                   /\ Post(resp.endCursor)
              ELSE /\ acc' = page.list
                   /\ UNCHANGED <<after, requests>>
                   /\ Return(page.list)
    /\ UNCHANGED <<PAT, tool, filter, analytics, html, analyzerVars, callVars, frameVars>>

(***************************************************************************)
(* app.py: get_project_details                                             *)
(***************************************************************************)
\* `if not PAT` of get_project_details
TokenMissingDetails(pat) == pat = ""

InvokeGetProjectDetails(project_request) ==
    /\ pc = "idle"
    /\ tool' = "get_project_details"
    /\ filter' = project_request
    /\ IF TokenMissingDetails(PAT)
       THEN Raise("401") /\ UNCHANGED requests
       ELSE Post(after)
    /\ UNCHANGED <<PAT, after, acc, served, analytics, html, analyzerVars, callVars, frameVars>>

\* what the body of the try block raises on this response ("" when it returns)
RaisedInTry(resp) ==
    IF TransportError(resp) # "" THEN TransportError(resp)
    ELSE IF resp.errors THEN "400"
    ELSE ""

ReceiveDetails(responses) ==
    /\ Awaiting("get_project_details")
    /\ \E resp \in responses :
       /\ Answered(resp)
       /\ IF RaisedInTry(resp) # ""
          THEN Raise("503")
          ELSE Return(<<"data">>)
    /\ UNCHANGED <<PAT, tool, filter, after, acc, requests, analytics, html, analyzerVars, callVars, frameVars>>

(***************************************************************************)
(* app.py: get_project_iterations                                          *)
(***************************************************************************)
\* `if not PAT` of get_project_iterations
TokenMissingIterations(pat) == pat = ""

InvokeGetProjectIterations(project) ==
    /\ pc = "idle"
    /\ tool' = "get_project_iterations"
    /\ filter' = project
    /\ IF TokenMissingIterations(PAT)
       THEN Raise("401") /\ UNCHANGED requests
       ELSE Post(after)
    /\ UNCHANGED <<PAT, after, acc, served, analytics, html, analyzerVars, callVars, frameVars>>

\* the iterations of the fields named Iteration, in order, or the mapper's exception
RECURSIVE FieldLoop(_, _)
FieldLoop(nodes, iterations) ==
    IF nodes = << >> THEN [err |-> "", list |-> iterations]
    ELSE LET node == Head(nodes)
             bad == {i \in 1..Len(node.iterations) : Iteration_error(node.iterations[i]) # ""}
         IN  IF node.name # "Iteration" THEN FieldLoop(Tail(nodes), iterations)
             ELSE IF bad # {}
             THEN [err |-> Iteration_error(node.iterations[CHOOSE i \in bad :
                                                               \A j \in bad : i <= j]),
                   list |-> iterations]
             ELSE FieldLoop(Tail(nodes),
                      iterations \o MapSeq(node.iterations, Iteration_from_gh_json))

ReceiveIterations(responses) ==
    /\ Awaiting("get_project_iterations")
    /\ \E resp \in responses :
       /\ Answered(resp)
       /\ LET page == FieldLoop(resp.nodes, acc)
          IN  IF TransportError(resp) # ""
              THEN Raise(TransportError(resp)) /\ UNCHANGED acc
              ELSE IF ~resp.hasData
              THEN Raise("TypeError") /\ UNCHANGED acc
              ELSE IF page.err # ""
              THEN Raise(page.err) /\ acc' = page.list
              ELSE acc' = page.list /\ Return(page.list)
    /\ UNCHANGED <<PAT, tool, filter, after, requests, analytics, html, analyzerVars, callVars, frameVars>>

(***************************************************************************)
(* The server: one tool invocation, from the request to its outcome.       *)
(***************************************************************************)
Next ==
    \/ \E f \in PRFilters : InvokeGetRepoPRs(f)
    \/ \E request \in ReportRequests : InvokeReport(request)
    \/ ReceivePRs(Responses(PRNodes, after))
    \/ Analyze
    \/ Render
    \/ \E f \in RepoFilters : InvokeGetRepoIssues(f)
    \/ ReceiveIssues(Responses(IssueNodes, after))
    \/ \E p \in ProjectIDs : InvokeGetProjectDetails(p)
    \/ ReceiveDetails(SingleResponses({}))
    \/ \E p \in ProjectIDs : InvokeGetProjectIterations(p)
    \/ ReceiveIterations(SingleResponses(FieldNodes))

Spec == Init /\ [][Next]_vars

(***************************************************************************)
(* PRAnalyzer on its own: PRAnalyzer(pull_requests) is built from a list   *)
(* of mapped pull requests and analyze_time_period(start_date, end_date)   *)
(* is called once.                                                         *)
(***************************************************************************)
Docs == <<"d", "o", "c", "s">>

AnalyzerNodes ==
    {[NodeA EXCEPT !.id = 11],
     [NodeA EXCEPT !.id = 12, !.title = Feat, !.mergedAt = DtStr("Z", 10, 0),
                   !.additions = 3, !.deletions = 3],
     [NodeA EXCEPT !.id = 13, !.title = Docs, !.mergedAt = DtStr("offset", 25, 2),
                   !.author = Author("bob"), !.additions = 2, !.deletions = 0],
     [NodeA EXCEPT !.id = 14, !.mergedAt = DtStr("Z", 10, 0), !.author = NoAuthor,
                   !.additions = 4, !.deletions = 1],
     [NodeA EXCEPT !.id = 15, !.author = Author(""), !.additions = 1],
     [NodeA EXCEPT !.id = 17, !.mergedAt = DtStr("offset", 32, 2), !.additions = 6],
     [NodeB EXCEPT !.id = 16, !.author = Author("alice"), !.additions = 7]}

AnalyzerPRs == {PullRequest_from_gh_json_direct(n) : n \in AnalyzerNodes}

StartDates == {DtNone, Dt(10, 0, FALSE), Dt(21, 1, TRUE)}

EndDates == {DtNone, Dt(30, 0, TRUE), Dt(12, 0, FALSE)}

InitAnalyzer ==
    /\ Loaded("ghp_token")
    /\ pull_requests \in SeqsUpTo(AnalyzerPRs, MaxPRs)
    /\ start_date \in StartDates
    /\ end_date \in EndDates
    /\ apc = "ready"
    /\ NoCall
    /\ NoFrames

RunAnalyzer ==
    /\ apc = "ready"
    /\ analytics' = analyze_time_period(pull_requests, start_date, end_date)
    /\ apc' = (IF analytics' = NoAnalytics THEN "nodata" ELSE "done")
    /\ UNCHANGED <<toolVars, pull_requests, start_date, end_date, callVars, frameVars>>

NextAnalyzer == RunAnalyzer

SpecAnalyzer == InitAnalyzer /\ [][NextAnalyzer]_vars

(***************************************************************************)
(* The two filters on their own: one call whose upstream holds a single    *)
(* page with a single node, over every combination of node fields and of   *)
(* at most MaxCriteria supplied criteria.                                  *)
(***************************************************************************)
RichPRNodes ==
    {[id |-> 1, title |-> t, state |-> st, createdAt |-> c, updatedAt |-> u,
      mergedAt |-> m, merged |-> mg, author |-> a, baseRefName |-> b,
      additions |-> 1, deletions |-> 0, changedFiles |-> 1,
      absent |-> {}, null |-> {}] :
        t \in {Fix, Feat}, st \in {"OPEN", "MERGED"},
        c \in {DtStr("Z", 10, 0), DtStr("plain", 25, 0)},
        u \in {DtStr("Z", 20, 0), DtStr("offset", 41, 1)},
        m \in {NullStr, DtStr("Z", 30, 0), DtStr("offset", 38, -2)},
        mg \in BOOLEAN, a \in {NoAuthor, Author("alice"), Author("bob")},
        b \in {"main", "dev"}}

Supplied(f, none) == Cardinality({k \in DOMAIN f : f[k] # none[k]})

RichPRFilters ==
    {f \in [title : {<< >>, Fix}, state : {"", "OPEN"}, merged_only : BOOLEAN,
            merged_after : {DtNone, Dt(40, 0, TRUE)},
            merged_before : {DtNone, Dt(30, 0, FALSE)},
            updated_after : {DtNone, Dt(40, 0, FALSE)},
            updated_before : {DtNone, Dt(22, 2, TRUE)},
            created_after : {DtNone, Dt(25, 0, TRUE)},
            created_before : {DtNone, Dt(10, 0, FALSE)},
            author : {"", "alice"}, base_ref : {"", "main"}] :
        Supplied(f, EmptyPRFilter) <= MaxCriteria}

RichIssueNodes ==
    {[hasContent |-> TRUE, id |-> 1, title |-> t, state |-> st,
      createdAt |-> DtStr("Z", 10, 0), updatedAt |-> u, iterationId |-> it,
      absent |-> {}, null |-> {}] :
        t \in {Fix, Feat}, st \in {"OPEN", "CLOSED"},
        u \in {DtStr("Z", 20, 0), DtStr("offset", 41, 1), DtStr("short", 20, 0)},
        it \in {"", "it1", "it2"}}

RichRepoFilters ==
    {f \in [title : {<< >>, Fix}, iteration_id : {"", "it1"}, state : {"", "OPEN"},
            updated_after : {DtNone, Dt(40, 0, TRUE), Dt(20, 0, FALSE)},
            updated_before : {DtNone, Dt(22, 2, TRUE), Dt(20, 0, FALSE)}] :
        Supplied(f, EmptyRepoFilter) <= MaxCriteria}

\* the upstream holds one page with one node
SinglePages(nodeSet) == {Body(FALSE, TRUE, <<n>>, FALSE, 1) : n \in nodeSet}

InitFilter == Loaded("ghp_token") /\ AnalyzerOff /\ NoCall /\ NoFrames

NextFilter ==
    \/ \E f \in RichPRFilters : InvokeGetRepoPRs(f)
    \/ ReceivePRs(SinglePages(RichPRNodes))
    \/ \E f \in RichRepoFilters : InvokeGetRepoIssues(f)
    \/ ReceiveIssues(SinglePages(RichIssueNodes))

SpecFilter == InitFilter /\ [][NextFilter]_vars

(***************************************************************************)
(* Stand-alone calls of the pure functions: the classifier, the mappers    *)
(* and the datetime parser. One call is drawn at the start, fn names the   *)
(* function and arg its argument; the call then runs and leaves            *)
(* result = [raised |-> the exception ("" when none), value |-> ...].      *)
(***************************************************************************)
Raised(exc) == [raised |-> exc, value |-> NoArg]

Returned(v) == [raised |-> "", value |-> v]

TitlePrefixes ==
    {<<"f", "e", "a", "t">>,
     <<"F", "e", "a", "t">>,
     <<"F", "E", "A", "T">>,
     <<"f", "i", "x">>,
     <<"F", "i", "x">>,
     <<"r", "e", "f", "a", "c", "t", "o", "r">>,
     <<"R", "e", "f", "a", "c", "t", "o", "r">>,
     <<"c", "h", "o", "r", "e">>,
     <<"C", "h", "o", "r", "e">>,
     <<"d", "o", "c", "s">>,
     <<"D", "o", "c", "s">>,
     <<"t", "e", "s", "t">>,
     <<"T", "e", "s", "t">>}

TitleSuffixes == {<< >>, <<":", " ", "c", "l", "e", "a", "n", "u", "p">>, <<" ", "f", "e", "a", "t">>}

Titles ==
    {p \o x : p \in TitlePrefixes, x \in TitleSuffixes}
        \cup {<< >>, <<"x", "f", "i", "x">>, <<"f", "e">>, <<"o", "t", "h", "e", "r">>, <<"t", "f", "i", "x">>, <<"e", "f", "e", "a", "t">>}

PRTypeCalls == {[fn |-> "analyze_pr_types", arg |-> [title |-> title]] : title \in Titles}

Call_analyze_pr_types ==
    /\ fn = "analyze_pr_types" /\ result = NoResult
    /\ result' = Returned(analyze_pr_types(<<arg>>))
    /\ UNCHANGED <<toolVars, analytics, analyzerVars, fn, arg, frameVars>>

IterationNodes ==
    {[id |-> "it1", startDate |-> sd, endDate |-> ed, duration |-> d,
      absent |-> gaps[1], null |-> gaps[2]] :
        sd \in {NullStr, DtStr("date", 24, 0), DtStr("Z", 30, 0), DtStr("short", 30, 0)},
        ed \in {NullStr, DtStr("date", 72, 0), DtStr("Z", 102, 0), DtStr("offset", 80, 2)},
        d \in {NoDuration, 0, 1, 2},
        gaps \in {<<{}, {}>>, <<{"id"}, {}>>, <<{}, {"id"}>>}}

IterationCalls == {[fn |-> "Iteration.from_gh_json", arg |-> n] : n \in IterationNodes}

Call_Iteration_from_gh_json ==
    /\ fn = "Iteration.from_gh_json" /\ result = NoResult
    /\ result' = (IF Iteration_error(arg) # "" THEN Raised(Iteration_error(arg))
                  ELSE Returned(Iteration_from_gh_json(arg)))
    /\ UNCHANGED <<toolVars, analytics, analyzerVars, fn, arg, frameVars>>

\* pull-request content with keys left out or null
PRContents ==
    {[NodeA EXCEPT !.createdAt = c, !.updatedAt = u, !.mergedAt = m,
                   !.absent = gaps[1], !.null = gaps[2]] :
        c \in {DtStr("Z", 10, 0), NullStr, DtStr("missing", 0, 0), DtStr("garbage", 0, 0)},
        u \in {DtStr("Z", 20, 0), DtStr("missing", 0, 0)},
        m \in {NullStr, DtStr("Z", 30, 0)},
        gaps \in {<<{}, {}>>, <<{"title"}, {}>>, <<{"additions", "merged"}, {}>>,
                  <<{"assignees"}, {}>>, <<{}, {"title"}>>, <<{}, {"additions"}>>,
                  <<{}, {"assignees"}>>, <<{}, {"merged"}>>,
                  <<{"state"}, {"reviews", "number"}>>}}

FieldValueLists ==
    {<< >>, <<[iterationId |-> ""], [iterationId |-> "it1"], [iterationId |-> "it2"]>>}

PRDirectCalls == {[fn |-> "PullRequest.from_gh_json_direct", arg |-> n] : n \in PRContents}

PREnvelopeCalls ==
    {[fn |-> "PullRequest.from_gh_json", arg |-> [content |-> n, fieldValues |-> fv]] :
        n \in PRContents, fv \in FieldValueLists}

Call_PullRequest_from_gh_json_direct ==
    /\ fn = "PullRequest.from_gh_json_direct" /\ result = NoResult
    /\ result' = (IF PullRequest_direct_error(arg) # ""
                  THEN Raised(PullRequest_direct_error(arg))
                  ELSE Returned(PullRequest_from_gh_json_direct(arg)))
    /\ UNCHANGED <<toolVars, analytics, analyzerVars, fn, arg, frameVars>>

Call_PullRequest_from_gh_json ==
    /\ fn = "PullRequest.from_gh_json" /\ result = NoResult
    /\ result' = (IF PullRequest_error(arg) # ""
                  THEN Raised(PullRequest_error(arg))
                  ELSE Returned(PullRequest_from_gh_json(arg)))
    /\ UNCHANGED <<toolVars, analytics, analyzerVars, fn, arg, frameVars>>

\* project items with content, with keys left out or null
IssueItems ==
    {[ItemA EXCEPT !.createdAt = c, !.absent = gaps[1], !.null = gaps[2]] :
        c \in {DtStr("Z", 10, 0), NullStr, DtStr("missing", 0, 0)},
        gaps \in {<<{}, {}>>, <<{"title"}, {}>>, <<{"fieldValues"}, {}>>, <<{"body"}, {}>>,
                  <<{}, {"title"}>>, <<{}, {"author"}>>, <<{}, {"closedAt"}>>,
                  <<{"labels"}, {"id"}>>}}

IssueCalls == {[fn |-> "Issue.from_gh_json", arg |-> n] : n \in IssueItems}

Call_Issue_from_gh_json ==
    /\ fn = "Issue.from_gh_json" /\ result = NoResult
    /\ result' = (IF Issue_error(arg) # "" THEN Raised(Issue_error(arg))
                  ELSE Returned(Issue_from_gh_json(arg)))
    /\ UNCHANGED <<toolVars, analytics, analyzerVars, fn, arg, frameVars>>

\* timestamp strings of every shape
Offsets == {-2, 1}

OffsetLessShapes == {"plain", "date", "space", "slash", "short", "fraction"}

OffsetLessStrings == {DtStr(shape, local, 0) : shape \in OffsetLessShapes, local \in 0..MaxHour}

OffsetStrings ==
    {DtStr("Z", local, 0) : local \in 0..MaxHour}
        \cup {DtStr(shape, local, off) : shape \in {"offset", "fractionoffset"},
                                        local \in 0..MaxHour, off \in Offsets}

OtherStrings ==
    {NullStr, DtStr("empty", 0, 0), DtStr("missing", 0, 0), DtStr("garbage", 0, 0),
     DtStr("Zgarbage", 0, 0)}

ParseCalls ==
    {[fn |-> "parse_datetime_flexible", arg |-> str] :
        str \in OffsetLessStrings \cup OffsetStrings \cup OtherStrings}

Call_parse_datetime_flexible ==
    /\ fn = "parse_datetime_flexible" /\ result = NoResult
    /\ result' = (IF parse_datetime_flexible_error(arg) # ""
                  THEN Raised(parse_datetime_flexible_error(arg))
                  ELSE Returned(parse_datetime_flexible(arg)))
    /\ UNCHANGED <<toolVars, analytics, analyzerVars, fn, arg, frameVars>>

\* normalize_datetime_for_comparison(parse_datetime_flexible(.)) of two strings
NormalizeCalls ==
    {[fn |-> "normalize_datetime_for_comparison", arg |-> [a |-> a, b |-> b]] :
        a \in OffsetLessStrings, b \in OffsetStrings}

Call_normalize_datetime_for_comparison ==
    /\ fn = "normalize_datetime_for_comparison" /\ result = NoResult
    /\ result' = Returned(
           [a |-> normalize_datetime_for_comparison(parse_datetime_flexible(arg.a)),
            b |-> normalize_datetime_for_comparison(parse_datetime_flexible(arg.b))])
    /\ UNCHANGED <<toolVars, analytics, analyzerVars, fn, arg, frameVars>>

\* every stand-alone call the model draws from
Calls == PRTypeCalls \cup IterationCalls \cup PRDirectCalls \cup PREnvelopeCalls \cup IssueCalls
        \cup ParseCalls \cup NormalizeCalls

InitCalls ==
    /\ Loaded("ghp_token") /\ AnalyzerOff /\ NoFrames
    /\ \E c \in Calls : fn = c.fn /\ arg = c.arg
    /\ result = NoResult

NextCalls ==
    \/ Call_analyze_pr_types
    \/ Call_Iteration_from_gh_json
    \/ Call_PullRequest_from_gh_json_direct
    \/ Call_PullRequest_from_gh_json
    \/ Call_Issue_from_gh_json
    \/ Call_parse_datetime_flexible
    \/ Call_normalize_datetime_for_comparison

SpecCalls == InitCalls /\ [][NextCalls]_vars

(***************************************************************************)
(* Properties of the fetch loops.                                          *)
(***************************************************************************)
LoopTools == {"get_repo_prs", "generate_pr_analytics_report", "get_repo_issues"}

PRTools == {"get_repo_prs", "generate_pr_analytics_report"}

\* the nodes of the pages received so far, in page order
ServedNodes == Concat([i \in 1..Len(served) |-> served[i].nodes])

CarriesContent(node) == node.hasContent

\* every page but the last reported hasNextPage = true, the last one false
WalkedToLastPage ==
    /\ served # << >>
    /\ \A i \in 1..Len(served) :
           served[i].kind = "ok" /\ (served[i].hasNextPage <=> i < Len(served))

\* C1: with no filter criterion, a call that returns hands back exactly one
\* mapped record per node of every page (get_repo_issues: per node that
\* carries content), in page order and, within a page, in node order.
C1_PaginationComplete ==
    /\ (tool = "get_repo_prs" /\ pc = "done" /\ filter = EmptyPRFilter)
          => /\ WalkedToLastPage
             /\ returned = MapSeq(ServedNodes, PullRequest_from_gh_json_direct)
    /\ (tool = "get_repo_issues" /\ pc = "done" /\ filter = EmptyRepoFilter)
          => /\ WalkedToLastPage
             /\ returned = MapSeq(SelectSeq(ServedNodes, CarriesContent), Issue_from_gh_json)

\* three pages of two different nodes each were fetched and six records returned
C1_Witness ==
    /\ tool = "get_repo_prs" /\ pc = "done" /\ filter = EmptyPRFilter
    /\ Len(served) = 3
    /\ \A i \in 1..3 : Len(served[i].nodes) = 2 /\ served[i].nodes[1] # served[i].nodes[2]
    /\ Len(returned) = 6

\* the fetch or the mapping of this page fails
PageFails(t, resp) ==
    \/ resp.kind # "ok"
    \/ /\ t \in PRTools
       /\ \E k \in 1..Len(resp.nodes) : PullRequest_direct_error(resp.nodes[k]) # ""
    \/ /\ t = "get_repo_issues"
       /\ \E k \in 1..Len(resp.nodes) :
              resp.nodes[k].hasContent /\ Issue_error(resp.nodes[k]) # ""

\* the instant of a bound or timestamp, a reading without offset taken as UTC
UtcHour(dt) == IF dt.aware THEN dt.local - dt.off ELSE dt.local

\* the pull request satisfies every criterion the filter supplies
MeetsPRFilter(pr) ==
    /\ filter.title # << >> => StartsWith(pr.title, filter.title)
    /\ filter.state # "" => pr.state = filter.state
    /\ filter.merged_only => pr.merged
    /\ filter.merged_after # DtNone =>
           (pr.mergedAt # DtNone /\ UtcHour(pr.mergedAt) >= UtcHour(filter.merged_after))
    /\ filter.merged_before # DtNone =>
           (pr.mergedAt # DtNone /\ UtcHour(pr.mergedAt) <= UtcHour(filter.merged_before))
    /\ filter.updated_after # DtNone => UtcHour(pr.updatedAt) >= UtcHour(filter.updated_after)
    /\ filter.updated_before # DtNone => UtcHour(pr.updatedAt) <= UtcHour(filter.updated_before)
    /\ filter.created_after # DtNone => UtcHour(pr.createdAt) >= UtcHour(filter.created_after)
    /\ filter.created_before # DtNone => UtcHour(pr.createdAt) <= UtcHour(filter.created_before)
    /\ filter.author # "" => (pr.author.present /\ pr.author.login = filter.author)
    /\ filter.base_ref # "" => pr.baseRefName = filter.base_ref

\* the issue satisfies every criterion the filter supplies
MeetsRepoFilter(task) ==
    /\ filter.title # << >> => StartsWith(task.title, filter.title)
    /\ filter.iteration_id # "" => task.iteration = filter.iteration_id
    /\ filter.state # "" => task.state = filter.state
    /\ filter.updated_after # DtNone => UtcHour(task.updatedAt) >= UtcHour(filter.updated_after)
    /\ filter.updated_before # DtNone => UtcHour(task.updatedAt) <= UtcHour(filter.updated_before)

\* every page so far was fetched and mapped without a failure
FetchedAndMapped ==
    \A i \in 1..Len(served) : ~PageFails(tool, served[i]) /\ ~served[i].errors

\* C2: in both fetch loops the records returned are exactly the mapped
\* records that satisfy every supplied criterion of the filter.
C2_FilterConjunction ==
    /\ (tool = "get_repo_prs" /\ pc \in {"done", "failed"} /\ FetchedAndMapped)
          => /\ pc = "done"
             /\ returned = SelectSeq(MapSeq(ServedNodes, PullRequest_from_gh_json_direct),
                                     MeetsPRFilter)
    /\ (tool = "get_repo_issues" /\ pc \in {"done", "failed"} /\ FetchedAndMapped)
          => /\ pc = "done"
             /\ returned = SelectSeq(MapSeq(SelectSeq(ServedNodes, CarriesContent),
                                            Issue_from_gh_json),
                                     MeetsRepoFilter)

\* the part of C2 that is about get_repo_prs_direct alone
PRFilterIsConjunction ==
    (tool = "get_repo_prs" /\ pc \in {"done", "failed"} /\ FetchedAndMapped)
        => /\ pc = "done"
           /\ returned = SelectSeq(MapSeq(ServedNodes, PullRequest_from_gh_json_direct),
                                   MeetsPRFilter)

\* the part of C2 that is about get_repo_issues when no comparison raised
IssueFilterIsConjunction ==
    (tool = "get_repo_issues" /\ pc = "done" /\ FetchedAndMapped)
        => returned = SelectSeq(MapSeq(SelectSeq(ServedNodes, CarriesContent),
                                       Issue_from_gh_json),
                                MeetsRepoFilter)

\* C3: no request follows a page that reported hasNextPage = false, and a
\* call that walked the pages to the end made as many requests as the index
\* of the first such page.
C3_StopsAtLastPage ==
    tool \in LoopTools =>
        /\ \A i \in 1..Len(served) :
               i < Len(requests) => (served[i].kind = "ok" /\ served[i].hasNextPage)
        /\ pc \in {"done", "analyze", "render"} =>
               /\ WalkedToLastPage
               /\ Len(requests) = Len(served)
        /\ Len(requests) <= Len(served) + 1

\* the second page carried nodes, reported hasNextPage = false and ended the call
C3_Witness ==
    /\ tool = "get_repo_prs" /\ pc = "done"
    /\ Len(requests) = 2 /\ Len(served) = 2
    /\ served[2].nodes # << >> /\ ~served[2].hasNextPage

\* C4: once the fetch or the mapping of a page has failed, the call has
\* ended in an error, nothing is returned and no later page is fetched.
C4_FailFast ==
    tool \in LoopTools =>
        \A i \in 1..Len(served) :
            PageFails(tool, served[i]) =>
                /\ pc = "failed"
                /\ outcome \notin {"none", "ok"}
                /\ returned = << >>
                /\ ~html
                /\ i = Len(served)
                /\ Len(requests) = i

\* a node without updatedAt on the second page, after records were accumulated
C4_Witness ==
    /\ tool = "get_repo_prs" /\ pc = "failed" /\ outcome = "ValueError"
    /\ Len(served) = 2 /\ acc # << >>
    /\ served[1].nodes # << >>

\* C5: a page whose response carries `errors` makes the call fail, and its
\* nodes are never returned.
C5_ErrorsFailTheCall ==
    tool \in LoopTools =>
        \A i \in 1..Len(served) :
            (served[i].kind = "ok" /\ served[i].errors) =>
                pc = "failed" /\ returned = << >>

\* C6: in get_project_details a response with `errors` ends in an upstream
\* protocol error (400), never in the 503 of a network failure.
C6_ErrorsDistinctFromNetwork ==
    (tool = "get_project_details" /\ served # << >>
        /\ served[1].kind = "ok" /\ served[1].errors)
    => (pc = "failed" /\ outcome = "400")

C8_NetworkFailureIs503 ==
    \A i \in 1..Len(served) :
        served[i].kind = "net_fail" =>
            /\ pc = "failed"
            /\ outcome = "503"
            /\ Len(requests) = i

(***************************************************************************)
(* Properties of the analyzer.                                             *)
(***************************************************************************)
\* the pull request has a merge time inside [start_date, end_date]
MergedInWindow(pr) ==
    /\ pr.mergedAt # DtNone
    /\ (start_date # DtNone => UtcHour(start_date) <= UtcHour(pr.mergedAt))
    /\ (end_date # DtNone => UtcHour(pr.mergedAt) <= UtcHour(end_date))

Aggregated == SelectSeq(pull_requests, MergedInWindow)

\* C9: analyze_time_period raises the no-data error exactly when no input
\* pull request has a merge time inside the bounds, and then produces no
\* AnalyticsData; a summary it returns counts at least one pull request.
C9_NoDataExactlyWhenEmpty ==
    apc \in {"done", "nodata"} =>
        /\ (apc = "nodata") <=> (Aggregated = << >>)
        /\ (apc = "nodata") => (analytics = NoAnalytics)
        /\ (apc = "done") =>
               (analytics # NoAnalytics /\ analytics.total_stats.total_prs >= 1)

\* pull requests were given, one of them merged, and none lies inside the bounds
C9_Witness ==
    /\ apc = "nodata"
    /\ \E i \in 1..Len(pull_requests) : pull_requests[i].mergedAt # DtNone
    /\ start_date # DtNone

RECURSIVE SumContributorAdditions(_, _)
SumContributorAdditions(entries, logins) ==
    IF logins = {} THEN 0
    ELSE LET l == CHOOSE x \in logins : TRUE
         IN  entries[l].additions + SumContributorAdditions(entries, logins \ {l})

DailyAdditions == SumSeq(MapSeq(analytics.daily_stats, Additions))

ContributorAdditions ==
    SumContributorAdditions(analytics.contributor_analysis,
                            DOMAIN analytics.contributor_analysis)

NoLogin(pr) == ~HasLogin(pr)

\* the additions of the aggregated pull requests that have no author login
AnonymousAdditions == SumSeq(MapSeq(SelectSeq(Aggregated, NoLogin), Additions))

\* C10 as stated: total_additions equals the sum over the daily buckets and
\* the sum over the contributor entries, for any list of pull requests.
C10_TotalsAgree ==
    apc = "done" =>
        /\ analytics.total_stats.total_additions = DailyAdditions
        /\ analytics.total_stats.total_additions = ContributorAdditions

\* C10 as amended: total_additions equals the sum over the daily buckets,
\* and exceeds the sum over the contributor entries by exactly the additions
\* of the aggregated pull requests that have no author login.
C10_TotalsAgreeAmended ==
    apc = "done" =>
        /\ analytics.total_stats.total_additions = DailyAdditions
        /\ analytics.total_stats.total_additions = ContributorAdditions + AnonymousAdditions
        /\ analytics.total_stats.total_additions = SumSeq(MapSeq(Aggregated, Additions))

\* two daily buckets, one of them with two pull requests, and a pull request
\* without author login among those aggregated
C10_Witness ==
    /\ apc = "done"
    /\ Len(analytics.daily_stats) = 2
    /\ \E k \in 1..2 : analytics.daily_stats[k].prs = 2
    /\ AnonymousAdditions > 0
    /\ ContributorAdditions > 0

\* the UTC calendar day of a merge time
UtcDay(dt) == UtcHour(dt) \div HoursPerDay

\* the number of aggregated pull requests merged on this UTC calendar day
MergedOnUtcDay(day) ==
    Cardinality({i \in 1..Len(Aggregated) : UtcDay(Aggregated[i].mergedAt) = day})

\* C11: every aggregated pull request is counted in the daily bucket keyed by
\* the UTC calendar date of its merge time, whatever offset the merge time is
\* expressed in: each UTC day with a merge has a bucket, and the bucket counts
\* exactly the pull requests merged on that UTC day.
C11_BucketsByUtcDate ==
    apc = "done" =>
        \A i \in 1..Len(Aggregated) :
            LET day == UtcDay(Aggregated[i].mergedAt)
            IN  \E k \in 1..Len(analytics.daily_stats) :
                    /\ analytics.daily_stats[k].date = day
                    /\ analytics.daily_stats[k].prs = MergedOnUtcDay(day)

(***************************************************************************)
(* Properties of the classifier.                                           *)
(***************************************************************************)
\* the prefixes in the order they are tried, each with its category
PrefixOrder ==
    <<[prefix |-> <<"f", "e", "a", "t">>, type |-> "features"],
      [prefix |-> <<"f", "i", "x">>, type |-> "fixes"],
      [prefix |-> <<"r", "e", "f", "a", "c", "t", "o", "r">>, type |-> "refactors"],
      [prefix |-> <<"c", "h", "o", "r", "e">>, type |-> "chores"],
      [prefix |-> <<"d", "o", "c", "s">>, type |-> "documentation"],
      [prefix |-> <<"t", "e", "s", "t">>, type |-> "tests"]>>

\* the category of the first prefix of PrefixOrder the lower-cased title starts with
ExpectedType(title) ==
    LET lowered == MapSeq(title, Lower)
        hits == {k \in 1..Len(PrefixOrder) : StartsWith(lowered, PrefixOrder[k].prefix)}
    IN  IF hits = {} THEN "other"
        ELSE PrefixOrder[CHOOSE k \in hits : \A j \in hits : k <= j].type

FixThenFeat == <<"f", "i", "x", " ", "f", "e", "a", "t">>

RefactorCleanup == <<"R", "e", "f", "a", "c", "t", "o", "r", ":", " ", "c", "l", "e", "a", "n", "u", "p">>

\* C12: the classification lower-cases the title and takes the category of
\* the first matching prefix in the order feat, fix, refactor, chore, docs,
\* test, and other when none matches or the title is empty; "fix feat" is
\* fixes and "Refactor: cleanup" is refactors.
C12_FirstPrefixWins ==
    (fn = "analyze_pr_types" /\ result # NoResult) =>
        /\ result = Returned(ExpectedType(arg.title) :> 1)
        /\ arg.title = FixThenFeat => result.value = ("fixes" :> 1)
        /\ arg.title = RefactorCleanup => result.value = ("refactors" :> 1)
        /\ arg.title = << >> => result.value = ("other" :> 1)

C12_Witness ==
    /\ fn = "analyze_pr_types"
    /\ arg.title = RefactorCleanup
    /\ result = Returned("refactors" :> 1)

(***************************************************************************)
(* Properties of Iteration.from_gh_json.                                   *)
(***************************************************************************)
IterationCallDone == fn = "Iteration.from_gh_json" /\ result # NoResult

\* the source node supplies the value
StartKnown == parse_datetime_flexible(arg.startDate) # DtNone

EndKnown == parse_datetime_flexible(arg.endDate) # DtNone

DurationKnown == arg.duration # NoDuration

IdKnown == "id" \notin arg.absent \cup arg.null

\* C13: with a start date and a duration but no end date the mapped end_date
\* is start_date plus duration days; with a start date and an end date but
\* no duration the mapped duration is the whole-day difference end - start.
C13_MissingFieldFilled ==
    (IterationCallDone /\ IdKnown) =>
        /\ (StartKnown /\ DurationKnown /\ ~EndKnown) =>
              /\ result.raised = ""
              /\ result.value.end_date # DtNone
              /\ UtcHour(result.value.end_date) =
                     UtcHour(parse_datetime_flexible(arg.startDate))
                         + arg.duration * HoursPerDay
        /\ (StartKnown /\ EndKnown /\ ~DurationKnown) =>
              /\ result.raised = ""
              /\ result.value.duration =
                     (UtcHour(parse_datetime_flexible(arg.endDate))
                          - UtcHour(parse_datetime_flexible(arg.startDate))) \div HoursPerDay

\* C14: a start date, an end date or a duration (0 included) that the source
\* node supplies appears unchanged in the mapped Iteration.
C14_SuppliedValuesKept ==
    (IterationCallDone /\ result.raised = "") =>
        /\ StartKnown => result.value.start_date = parse_datetime_flexible(arg.startDate)
        /\ EndKnown => result.value.end_date = parse_datetime_flexible(arg.endDate)
        /\ DurationKnown => result.value.duration = arg.duration

\* C15: whenever two of start date, end date and duration are known in the
\* source node, the mapped Iteration has all three with end = start + duration.
C15_ThirdDerived ==
    (IterationCallDone /\ IdKnown
        /\ Cardinality({k \in {"start", "end", "duration"} :
                           \/ k = "start" /\ StartKnown
                           \/ k = "end" /\ EndKnown
                           \/ k = "duration" /\ DurationKnown}) >= 2) =>
        /\ result.raised = ""
        /\ result.value.start_date # DtNone
        /\ result.value.end_date # DtNone
        /\ result.value.duration # NoDuration
        /\ UtcHour(result.value.end_date) =
               UtcHour(result.value.start_date) + result.value.duration * HoursPerDay

(***************************************************************************)
(* Properties of the mappers.                                              *)
(***************************************************************************)
\* the record with its iteration unset
WithoutIteration(pr) == [pr EXCEPT !.iteration = "None"]

\* C16: on the same content the enveloped and the direct pull-request mapper
\* build records equal in every field but iteration, which the direct mapper
\* always leaves unset; and when createdAt or updatedAt is missing or
\* unparseable both fail with the same validation error and build no record.
C16_TwoPathsAgree ==
    /\ (fn = "PullRequest.from_gh_json" /\ result # NoResult) =>
          /\ result.raised = PullRequest_direct_error(arg.content)
          /\ result.raised = "" =>
                 WithoutIteration(result.value) = PullRequest_from_gh_json_direct(arg.content)
          /\ (parse_datetime_flexible(arg.content.createdAt) = DtNone
                \/ parse_datetime_flexible(arg.content.updatedAt) = DtNone)
                 => result = Raised("ValueError")
    /\ (fn = "PullRequest.from_gh_json_direct" /\ result # NoResult) =>
          /\ result.raised = PullRequest_error([content |-> arg, fieldValues |-> << >>])
          /\ result.raised = "" =>
                 /\ result.value.iteration = "None"
                 /\ \A fv \in FieldValueLists :
                        WithoutIteration(PullRequest_from_gh_json(
                            [content |-> arg, fieldValues |-> fv])) = result.value
          /\ (parse_datetime_flexible(arg.createdAt) = DtNone
                \/ parse_datetime_flexible(arg.updatedAt) = DtNone)
                 => result = Raised("ValueError")

C16_Witness ==
    /\ fn = "PullRequest.from_gh_json"
    /\ result # NoResult
    /\ result.raised = ""
    /\ result.value.iteration = "it1"
    /\ result.value.mergedAt # DtNone
    /\ WithoutIteration(result.value) = PullRequest_from_gh_json_direct(arg.content)

\* createdAt and updatedAt are both present and parseable
TimestampsKnown(content) ==
    /\ parse_datetime_flexible(content.createdAt) # DtNone
    /\ parse_datetime_flexible(content.updatedAt) # DtNone

Gaps(content) == content.absent \cup content.null

\* the call fails only for a missing timestamp, and the record it builds
\* holds the default in every field the content leaves out or null
PRGapsDefaulted(content) ==
    /\ result.raised = (IF TimestampsKnown(content) THEN "" ELSE "ValueError")
    /\ result.raised = "" =>
          /\ "title" \in Gaps(content) => result.value.title = << >>
          /\ "state" \in Gaps(content) => result.value.state = ""
          /\ "baseRefName" \in Gaps(content) => result.value.baseRefName = ""
          /\ "merged" \in Gaps(content) => result.value.merged = FALSE
          /\ "additions" \in Gaps(content) => result.value.additions = 0
          /\ "deletions" \in Gaps(content) => result.value.deletions = 0
          /\ "changedFiles" \in Gaps(content) => result.value.changedFiles = 0

\* C17: in each mapper a source node lacking (or holding null in) a field
\* other than createdAt/updatedAt is mapped to a record with that field
\* defaulted; the only failure is the validation error for a missing
\* createdAt/updatedAt, never a missing-key or null-access fault.
C17_GapsDefaulted ==
    /\ (fn = "PullRequest.from_gh_json_direct" /\ result # NoResult) => PRGapsDefaulted(arg)
    /\ (fn = "PullRequest.from_gh_json" /\ result # NoResult) => PRGapsDefaulted(arg.content)
    /\ (fn = "Issue.from_gh_json" /\ result # NoResult) =>
          result.raised = (IF TimestampsKnown(arg) THEN "" ELSE "ValueError")
    /\ (fn = "Iteration.from_gh_json" /\ result # NoResult) =>
          result.raised \notin {"KeyError", "ValidationError"}

(***************************************************************************)
(* Properties of the datetime utilities.                                   *)
(***************************************************************************)
ParseCallDone == fn = "parse_datetime_flexible" /\ result # NoResult

\* no accepted shape parses the input
Unparseable(str) == str.shape \in {"null", "empty", "missing", "garbage", "Zgarbage"}

\* C18: parse_datetime_flexible never raises; it returns a datetime or null,
\* and null for every input that none of its accepted shapes parses.
C18_ParseNeverRaises ==
    ParseCallDone =>
        /\ result.raised = ""
        /\ result.value = DtNone \/ result.value.aware \in BOOLEAN
        /\ Unparseable(arg) => result.value = DtNone

C18_Witness ==
    /\ ParseCallDone
    /\ arg.shape = "Zgarbage"
    /\ result = Returned(DtNone)

\* C19: every non-null value parse_datetime_flexible returns is timezone-aware,
\* whichever branch produced it.
C19_ParsedIsAware ==
    (ParseCallDone /\ result.raised = "" /\ result.value # DtNone) => result.value.aware

\* the instant a timestamp string denotes in hours UTC, one without offset read as UTC
Denoted(str) ==
    IF str.shape \in {"date", "slash"} THEN DayStart(str.local) ELSE str.local - str.off

NormalizeCallDone == fn = "normalize_datetime_for_comparison" /\ result # NoResult

\* C20: for two accepted strings denoting the same instant, one without an
\* offset and one with an offset or Z, the normalized parsed values are equal.
C20_SameInstantSameValue ==
    (NormalizeCallDone /\ Denoted(arg.a) = Denoted(arg.b)) =>
        /\ result.value.a # DtNone
        /\ result.value.a = result.value.b

C20_Witness ==
    /\ NormalizeCallDone
    /\ arg.a.shape = "short" /\ arg.b.shape = "offset" /\ arg.b.off = 1
    /\ Denoted(arg.a) = Denoted(arg.b)
    /\ result.value.a = result.value.b

(***************************************************************************)
(* Properties of the comparisons made by the filters.                      *)
(***************************************************************************)
\* the pairs (record timestamp, bound) the filter of get_repo_prs_direct
\* compares for this pull request, as handed to the comparison
PRComparisons(f, pr) ==
    {<<normalize_datetime_for_comparison(pair[1]), normalize_datetime_for_comparison(pair[2])>> :
        pair \in {p \in {<<pr.mergedAt, f.merged_after>>, <<pr.mergedAt, f.merged_before>>,
                         <<pr.updatedAt, f.updated_after>>, <<pr.updatedAt, f.updated_before>>,
                         <<pr.createdAt, f.created_after>>, <<pr.createdAt, f.created_before>>} :
                     p[1] # DtNone /\ p[2] # DtNone}}

\* the pairs the filter of get_repo_issues compares for this issue
IssueComparisons(f, task) ==
    {p \in {<<task.updatedAt, f.updated_after>>, <<task.updatedAt, f.updated_before>>} :
        p[2] # DtNone}

\* the records mapped from the nodes served so far
MappedSoFar ==
    IF tool \in PRTools
    THEN {PullRequest_from_gh_json_direct(n) :
             n \in {m \in {ServedNodes[k] : k \in 1..Len(ServedNodes)} :
                       PullRequest_direct_error(m) = ""}}
    ELSE {Issue_from_gh_json(n) :
             n \in {m \in {ServedNodes[k] : k \in 1..Len(ServedNodes)} :
                       m.hasContent /\ Issue_error(m) = ""}}

\* C21: no filter compares a timezone-naive with a timezone-aware value:
\* every pair a filter compares is comparable, and no call ends in the
\* TypeError of such a comparison.
C21_ComparisonsNormalized ==
    /\ tool \in PRTools =>
          \A pr \in MappedSoFar : \A p \in PRComparisons(filter, pr) : Comparable(p[1], p[2])
    /\ tool = "get_repo_issues" =>
          /\ \A task \in MappedSoFar :
                 \A p \in IssueComparisons(filter, task) : Comparable(p[1], p[2])
          /\ FetchedAndMapped => outcome # "TypeError"

(***************************************************************************)
(* Two invocations of the list tools on one event loop. Each coroutine     *)
(* keeps variables, prs / tasks and its filter in its own frame, and       *)
(* control passes between coroutines only where client.post is awaited.    *)
(* The module globals PAT and GH_API_URL are read and never assigned.      *)
(* While the invocations run the upstream holds a fixed list of pages for  *)
(* each query; the page after cursor c is page c + 1.                      *)
(***************************************************************************)
MaxUpstreamPages == 2

Invocations == {1, 2}

ListTools == {"get_repo_prs", "get_repo_issues"}

FreshFrame ==
    [tool |-> "none", pc |-> "idle", filter |-> [none |-> TRUE], after |-> 0,
     acc |-> << >>, requests |-> << >>, outcome |-> "none", returned |-> << >>]

UpstreamPages(nodeLists) ==
    {pages \in SeqsUpTo(nodeLists, MaxUpstreamPages) : pages # << >>}

Upstreams ==
    [get_repo_prs : UpstreamPages({<<NodeA>>, <<NodeB>>, <<NodeX>>}),
     get_repo_issues : UpstreamPages({<<ItemA>>, <<ItemX>>})]

\* the body GitHub answers to the query of tool t after cursor c
PageAfter(pages, c) == Body(FALSE, TRUE, pages[c + 1], c + 1 < Len(pages), c + 1)

ToolFilters(t) == IF t = "get_repo_prs" THEN PRFilters ELSE RepoFilters

TokenMissing(t, pat) ==
    IF t = "get_repo_prs" THEN TokenMissingPRs(pat) ELSE TokenMissingIssues(pat)

ProcessPage(t, nodes, f, list) ==
    IF t = "get_repo_prs" THEN ProcessPRPage(nodes, f, list)
    ELSE ProcessIssuePage(nodes, f, list)

HasNextPage(t, resp) ==
    IF t = "get_repo_prs" THEN HasNextPagePRs(resp) ELSE HasNextPageIssues(resp)

\* a variant in which the list is one object that every invocation appends to
OwnList_shared(i) == frames[1].acc

\* the list the name prs / tasks is bound to in invocation i
OwnList(i) == frames[i].acc

\* the frame of an invocation of tool t with filter f, up to its first await
Begun(t, f, pat) ==
    IF TokenMissing(t, pat)
    THEN [FreshFrame EXCEPT !.tool = t, !.filter = f, !.pc = "failed", !.outcome = "401"]
    ELSE [FreshFrame EXCEPT !.tool = t, !.filter = f, !.pc = "await", !.requests = <<0>>]

\* one turn of the loop: the awaited page arrives, its nodes are mapped and
\* filtered onto list, and the loop goes on to the next await or ends
Resumed(frame, list, pages) ==
    LET resp == PageAfter(pages, frame.after)
        page == ProcessPage(frame.tool, resp.nodes, frame.filter, list)
    IN  IF page.err # ""
        THEN [frame EXCEPT !.acc = page.list, !.pc = "failed", !.outcome = page.err]
        ELSE IF HasNextPage(frame.tool, resp)
        THEN [frame EXCEPT !.acc = page.list, !.after = resp.endCursor,
                           !.requests = Append(@, resp.endCursor)]
        ELSE [frame EXCEPT !.acc = page.list, !.pc = "done", !.outcome = "ok",
                           !.returned = page.list]

InitConcurrent ==
    /\ Loaded("ghp_token") /\ AnalyzerOff /\ NoCall
    /\ frames = [i \in Invocations |-> FreshFrame]
    /\ upstream \in Upstreams

\* the client calls a tool; an invocation that ended leaves its slot to the next
BeginInvocation(i, t, f) ==
    /\ frames[i].pc \in {"idle", "done", "failed"}
    /\ frames' = [frames EXCEPT ![i] = Begun(t, f, PAT)]
    /\ UNCHANGED <<toolVars, analytics, analyzerVars, callVars, upstream>>

\* the event loop resumes invocation i at its await
ResumeInvocation(i) ==
    /\ frames[i].pc = "await"
    /\ frames' = [frames EXCEPT ![i] = Resumed(@, OwnList(i), upstream[@.tool])]
    /\ UNCHANGED <<toolVars, analytics, analyzerVars, callVars, upstream>>

NextConcurrent ==
    \/ \E i \in Invocations, t \in ListTools : \E f \in ToolFilters(t) : BeginInvocation(i, t, f)
    \/ \E i \in Invocations : ResumeInvocation(i)

SpecConcurrent == InitConcurrent /\ [][NextConcurrent]_vars

(***************************************************************************)
(* Properties of concurrent invocations.                                   *)
(***************************************************************************)
\* the result of an invocation of tool t with filter f that runs alone
RECURSIVE RunAlone(_, _, _)
RunAlone(frame, pages, turns) ==
    IF frame.pc # "await" \/ turns = 0 THEN frame
    ELSE RunAlone(Resumed(frame, frame.acc, pages), pages, turns - 1)

AloneResult(frame) ==
    LET pages == upstream[frame.tool]
        end == RunAlone(Begun(frame.tool, frame.filter, PAT), pages, Len(pages))
    IN  <<end.outcome, end.returned>>

Ended(i) == frames[i].pc \in {"done", "failed"}

SameAsAlone ==
    \A i \in Invocations :
        Ended(i) => <<frames[i].outcome, frames[i].returned>> = AloneResult(frames[i])

\* a step leaves a frame alone, starts it afresh, or advances it by one turn
\* computed from that frame and the upstream only
OwnFrameOnly ==
    \A i \in Invocations :
        \/ frames'[i] = frames[i]
        \/ /\ frames[i].pc # "await"
           /\ \E t \in ListTools : \E f \in ToolFilters(t) : frames'[i] = Begun(t, f, PAT)
        \/ /\ frames[i].pc = "await"
           /\ frames'[i] = Resumed(frames[i], frames[i].acc, upstream[frames[i].tool])

\* C22: two invocations interleaved at their awaits each end with the result
\* they have when run alone; a step of one never reads or writes the cursor,
\* list or filter of the other, and an invocation that starts after another
\* ended starts from a fresh frame.
C22_InvocationsIsolated == [](SameAsAlone) /\ [][OwnFrameOnly]_vars

\* both invocations of the same tool are suspended at their second fetch,
\* each holding the items of its first page
C22_Witness ==
    /\ \A i \in Invocations :
          /\ frames[i].pc = "await"
          /\ Len(frames[i].requests) = 2
          /\ frames[i].acc # << >>
    /\ frames[1].tool = frames[2].tool
    /\ frames[1].filter # frames[2].filter

(***************************************************************************)
(* Properties of the order of the fetches.                                 *)
(***************************************************************************)
\* C23: in every fetch loop the first fetch carries a null cursor (0); fetch
\* k + 1 is issued only after page k was received and processed without
\* error, only if page k reported hasNextPage = true, and with page k's
\* endCursor; at most one fetch is outstanding, and exactly while the call
\* is suspended.
C23_FetchesInOrder ==
    tool \in LoopTools =>
        /\ requests # << >> => requests[1] = 0
        /\ Len(requests) \in {Len(served), Len(served) + 1}
        /\ pc = "await" <=> Len(requests) = Len(served) + 1
        /\ \A k \in 2..Len(requests) :
              /\ k - 1 <= Len(served)
              /\ ~PageFails(tool, served[k - 1])
              /\ served[k - 1].hasNextPage
              /\ requests[k] = served[k - 1].endCursor

\* the third fetch of get_repo_issues is outstanding after two pages with nodes
C23_Witness ==
    /\ tool = "get_repo_issues" /\ pc = "await"
    /\ Len(requests) = 3 /\ Len(served) = 2
    /\ \A k \in 1..2 : served[k].nodes # << >>
    /\ requests = <<0, 1, 2>>

(***************************************************************************)
(* Properties of the merge-time bounds of get_repo_prs_direct.             *)
(***************************************************************************)
MergeBounded == filter.merged_after # DtNone \/ filter.merged_before # DtNone

WithinMergeBounds(pr) ==
    /\ pr.mergedAt # DtNone
    /\ filter.merged_after # DtNone => UtcHour(pr.mergedAt) >= UtcHour(filter.merged_after)
    /\ filter.merged_before # DtNone => UtcHour(pr.mergedAt) <= UtcHour(filter.merged_before)

\* C24: when merged_after or merged_before is supplied, every pull request
\* get_repo_prs_direct keeps has a merge time, not before merged_after and
\* not after merged_before (both bounds inclusive); a pull request without
\* merge time is never kept.
C24_MergeBoundsHold ==
    (tool \in PRTools /\ MergeBounded) =>
        /\ \A k \in 1..Len(acc) : WithinMergeBounds(acc[k])
        /\ \A k \in 1..Len(returned) : WithinMergeBounds(returned[k])

\* a pull request merged exactly at the lower bound was returned
C24_Witness ==
    /\ tool = "get_repo_prs" /\ pc = "done"
    /\ filter.merged_after # DtNone
    /\ returned # << >>
    /\ UtcHour(returned[1].mergedAt) = UtcHour(filter.merged_after)
    /\ returned[1].mergedAt.off # filter.merged_after.off

(***************************************************************************)
(* Properties of the set of pull requests the analyzer aggregates.         *)
(***************************************************************************)
AggregatedIds == {Aggregated[i].id : i \in 1..Len(Aggregated)}

AggregatedLogins ==
    {Aggregated[i].author.login : i \in {j \in 1..Len(Aggregated) : HasLogin(Aggregated[j])}}

TypeCounts == analytics.pr_type_analysis

RECURSIVE SumCounts(_, _)
SumCounts(counts, keys) ==
    IF keys = {} THEN 0
    ELSE LET k == CHOOSE x \in keys : TRUE
         IN  counts[k] + SumCounts(counts, keys \ {k})

\* C25: the pull requests the analyzer aggregates are exactly the input pull
\* requests, in input order, that have a merge time with
\* start_date <= merge time <= end_date on normalized values (an absent
\* bound does not restrict); the totals, the contributors, the type counts
\* and the daily counts are those of these pull requests and of no other.
C25_AggregatesExactlyTheWindow ==
    /\ apc \in {"ready", "done", "nodata"} =>
          filter_prs_by_date(pull_requests, start_date, end_date) = Aggregated
    /\ apc = "done" =>
          /\ analytics.total_stats.total_prs = Len(Aggregated)
          /\ analytics.total_stats.total_additions = SumSeq(MapSeq(Aggregated, Additions))
          /\ analytics.total_stats.total_deletions = SumSeq(MapSeq(Aggregated, Deletions))
          /\ analytics.total_stats.total_files = SumSeq(MapSeq(Aggregated, ChangedFiles))
          /\ analytics.total_stats.contributors = AggregatedLogins
          /\ DOMAIN analytics.contributor_analysis = AggregatedLogins
          /\ SumCounts(TypeCounts, DOMAIN TypeCounts) = Len(Aggregated)
          /\ SumSeq(MapSeq(analytics.daily_stats, LAMBDA d : d.prs)) = Len(Aggregated)

\* of three input pull requests one is unmerged, one lies before the window
\* and one inside it, and the summary was built from that one
C25_Witness ==
    /\ apc = "done"
    /\ Len(pull_requests) = 3
    /\ Len(Aggregated) = 1
    /\ \E i \in 1..3 : pull_requests[i].mergedAt = DtNone
    /\ \E i \in 1..3 : /\ pull_requests[i].mergedAt # DtNone
                       /\ pull_requests[i].id \notin AggregatedIds
    /\ start_date # DtNone /\ ~start_date.aware

(***************************************************************************)
(* Properties of the reported time period.                                 *)
(***************************************************************************)
AggregatedInstants == {UtcHour(Aggregated[i].mergedAt) : i \in 1..Len(Aggregated)}

\* C26: time_period.start is the earliest and time_period.end the latest
\* normalized merge time of the aggregated pull requests, so start <= end,
\* and the reported period lies inside the requested [start_date, end_date].
C26_PeriodIsMinMax ==
    apc = "done" =>
        LET period == analytics.time_period
        IN  /\ Instant(period.start) \in AggregatedInstants
            /\ Instant(period.end) \in AggregatedInstants
            /\ \A x \in AggregatedInstants : Instant(period.start) <= x /\ x <= Instant(period.end)
            /\ Instant(period.start) <= Instant(period.end)
            /\ start_date # DtNone => UtcHour(start_date) <= Instant(period.start)
            /\ end_date # DtNone => Instant(period.end) <= UtcHour(end_date)

\* the period starts at a merge time given with a +2h offset and ends at a
\* later one, both inside supplied bounds
C26_Witness ==
    /\ apc = "done"
    /\ start_date # DtNone /\ end_date # DtNone
    /\ Instant(analytics.time_period.start) < Instant(analytics.time_period.end)
    /\ \E i \in 1..Len(Aggregated) :
          /\ Aggregated[i].mergedAt.off # 0
          /\ UtcHour(Aggregated[i].mergedAt) = Instant(analytics.time_period.start)

(***************************************************************************)
(* Properties of the contributor entries.                                  *)
(***************************************************************************)
\* the aggregated pull requests of one author, in input order
PRsOf(login) ==
    SelectSeq(Aggregated, LAMBDA pr : HasLogin(pr) /\ pr.author.login = login)

\* the merge time of the first pull request of mine whose instant is best
FirstAt(mine, instant) ==
    LET i == CHOOSE j \in 1..Len(mine) :
                 /\ UtcHour(mine[j].mergedAt) = instant
                 /\ \A k \in 1..(j - 1) : UtcHour(mine[k].mergedAt) # instant
    IN  mine[i].mergedAt

Earliest(mine) ==
    CHOOSE x \in {UtcHour(mine[j].mergedAt) : j \in 1..Len(mine)} :
        \A k \in 1..Len(mine) : x <= UtcHour(mine[k].mergedAt)

Latest(mine) ==
    CHOOSE x \in {UtcHour(mine[j].mergedAt) : j \in 1..Len(mine)} :
        \A k \in 1..Len(mine) : x >= UtcHour(mine[k].mergedAt)

\* C27: for every contributor, first_contribution is the merge time of the
\* author's earliest and last_contribution that of the author's latest
\* aggregated pull request, compared on normalized values; among pull
\* requests merged at the same instant the first one seen is kept; hence
\* first_contribution <= last_contribution, and the entry counts >= 1 pull
\* request.
C27_FirstAndLastContribution ==
    apc = "done" =>
        \A login \in DOMAIN analytics.contributor_analysis :
            LET entry == analytics.contributor_analysis[login]
                mine == PRsOf(login)
            IN  /\ entry.prs = Len(mine) /\ entry.prs >= 1
                /\ entry.first_contribution = FirstAt(mine, Earliest(mine))
                /\ entry.last_contribution = FirstAt(mine, Latest(mine))
                /\ UtcHour(entry.first_contribution) <= UtcHour(entry.last_contribution)

\* an author has two pull requests merged at one instant, written with
\* different offsets, and a third merged earlier
C27_Witness ==
    /\ apc = "done"
    /\ \E login \in DOMAIN analytics.contributor_analysis :
          LET mine == PRsOf(login)
          IN  /\ Len(mine) = 3
              /\ \E i, j \in 1..3 :
                    /\ i < j
                    /\ mine[i].mergedAt # mine[j].mergedAt
                    /\ UtcHour(mine[i].mergedAt) = UtcHour(mine[j].mergedAt)
                    /\ analytics.contributor_analysis[login].last_contribution = mine[i].mergedAt
              /\ UtcHour(analytics.contributor_analysis[login].first_contribution)
                    < UtcHour(analytics.contributor_analysis[login].last_contribution)

(***************************************************************************)
(* Properties that tie the sections of the summary together.               *)
(***************************************************************************)
DailyPRs == SumSeq(MapSeq(analytics.daily_stats, LAMBDA d : d.prs))

DailyNetChange == SumSeq(MapSeq(analytics.daily_stats, LAMBDA d : d.net_change))

\* C28: the prs of the daily buckets and the counts of pr_type_analysis both
\* add up to total_prs, and the net_change of the daily buckets adds up to
\* the net_change of the totals.
C28_SectionsAddUp ==
    apc = "done" =>
        /\ DailyPRs = analytics.total_stats.total_prs
        /\ SumCounts(TypeCounts, DOMAIN TypeCounts) = analytics.total_stats.total_prs
        /\ DailyNetChange = analytics.total_stats.net_change

\* three pull requests of two types fall on two days and delete lines
C28_Witness ==
    /\ apc = "done"
    /\ analytics.total_stats.total_prs = 3
    /\ Len(analytics.daily_stats) = 2
    /\ Cardinality(DOMAIN TypeCounts) = 2
    /\ analytics.total_stats.total_deletions > 0

(***************************************************************************)
(* Properties of generate_pr_analytics_report.                             *)
(***************************************************************************)
ReportFetched ==
    /\ tool = "generate_pr_analytics_report"
    /\ \/ pc \in {"analyze", "render", "done"}
       \/ pc = "failed" /\ outcome = "NoData"

\* C29: in generate_pr_analytics_report the date filter of the analyzer
\* removes nothing: the pull requests it aggregates are those the fetch loop
\* returned, total_prs is their number, and the no-data error is raised only
\* when the fetch loop returned none.
C29_AnalyzerFilterKeepsAll ==
    ReportFetched =>
        /\ filter_prs_by_date(acc, filter.merged_after, filter.merged_before) = acc
        /\ analytics # NoAnalytics => analytics.total_stats.total_prs = Len(acc)
        /\ outcome = "NoData" => acc = << >>

\* the fetch loop dropped an unmerged pull request and returned two merged
\* ones from two pages, and the summary counts both
C29_Witness ==
    /\ tool = "generate_pr_analytics_report" /\ pc = "done"
    /\ Len(served) = 2
    /\ Len(acc) = 2
    /\ Len(ServedNodes) > 2
    /\ analytics.total_stats.total_prs = 2

\* C30: the stages of generate_pr_analytics_report are strictly ordered: the
\* analysis runs only after the last page was fetched, the rendering only
\* after the analysis produced its data, and a call that fails in the fetch
\* or in the analysis ends with the error and without any HTML.
C30_StagesInOrder ==
    tool = "generate_pr_analytics_report" =>
        /\ pc \in {"idle", "await"} => (analytics = NoAnalytics /\ ~html)
        /\ pc = "analyze" => (WalkedToLastPage /\ analytics = NoAnalytics /\ ~html)
        /\ analytics # NoAnalytics => (WalkedToLastPage /\ pc \in {"render", "done"})
        /\ pc = "render" => (analytics # NoAnalytics /\ ~html)
        /\ html => (analytics # NoAnalytics /\ pc = "done" /\ outcome = "ok")
        /\ pc = "done" => html
        /\ pc = "failed" => (~html /\ outcome \notin {"ok", "none"} /\ returned = << >>)

\* three pages were fetched, then the analysis and the rendering ran
C30_Witness ==
    /\ tool = "generate_pr_analytics_report" /\ pc = "done" /\ html
    /\ Len(served) = 3
    /\ analytics.total_stats.total_prs >= 2

====
